---- MODULE Spec2Model ----
(***************************************************************************)
(* Learning-journey notebooks (TC PRIMED Chapter 1a, Echofish Chapters 1,  *)
(* 2 and 3) as state machines.                                             *)
(*                                                                         *)
(*   SpecRun      a top-to-bottom run of one notebook, statement by        *)
(*                statement: the names bound so far and the life cycle of  *)
(*                the netCDF4 Dataset DS.                                  *)
(*   SpecInstall  the install-check loop of the first code cell.           *)
(*   SpecXr       the xarray selections of Echofish Chapter 2.             *)
(*   SpecGeo      the GeoPandas steps of Echofish Chapter 3.               *)
(*   SpecCh1      the download, open and combine cells of Echofish         *)
(*                Chapter 1, over repeated runs.                           *)
(*   SpecRead     the retrieval of the TC PRIMED file and the reading of   *)
(*                its latitude variable in Chapter 1a.                     *)
(*   SpecName     the start time encoded in a raw file name.               *)
(*   SpecFailures the runs above in which a cell can fail.                 *)
(***************************************************************************)
EXTENDS Integers, Sequences, FiniteSets, TLC

VARIABLES
  \* SpecRun
  nb, pc, bound, status, dsState, dsOpens, dsCloses, dsStray,
  \* SpecInstall
  inb, env, version, idx, outcomes, pipLog, istatus,
  \* SpecXr
  cruise, xpc, select_times, select_depths, Sv_38, Sv_38_subset, Sv_18,
  Sv_120, Sv_200, Sv_120_subset, first_freq_array, second_freq_array,
  Sv_select_diff, first_freq, second_freq, title,
  \* SpecGeo
  gps_df, gpc, gps_gdf, linestring, lineSimplified, centroid,
  center_latitude, center_longitude, m,
  \* SpecCh1
  run, cell, cstatus, fileIdx, downloads, localFiles, echodata, zarr,
  rmFound, combineFound,
  \* SpecRead
  server, rcell, rstatus, url_response, DS, dsCalls, S1_full_latitude,
  S1_subset_latitude,
  \* SpecName
  name, start, nstatus

varsRun == <<nb, pc, bound, status, dsState, dsOpens, dsCloses, dsStray>>
varsInstall == <<inb, env, version, idx, outcomes, pipLog, istatus>>
varsXr ==
  <<cruise, xpc, select_times, select_depths, Sv_38, Sv_38_subset, Sv_18,
    Sv_120, Sv_200, Sv_120_subset, first_freq_array, second_freq_array,
    Sv_select_diff, first_freq, second_freq, title>>
varsGeo ==
  <<gps_df, gpc, gps_gdf, linestring, lineSimplified, centroid,
    center_latitude, center_longitude, m>>
varsCh1 ==
  <<run, cell, cstatus, fileIdx, downloads, localFiles, echodata, zarr,
    rmFound, combineFound>>
varsRead ==
  <<server, rcell, rstatus, url_response, DS, dsCalls, S1_full_latitude,
    S1_subset_latitude>>
varsName == <<name, start, nstatus>>
varsRest == <<varsCh1, varsRead, varsName>>
vars == <<varsRun, varsInstall, varsXr, varsGeo, varsRest>>

(***************************************************************************)
(* The code cells of the four notebooks.                                   *)
(*   reads    names the statement loads (names bound inside the statement  *)
(*            itself, such as a loop target, excluded)                     *)
(*   binds    names the statement assigns or imports                       *)
(*   imports  top-level packages the statement imports                     *)
(*   op       the call the life-cycle properties are about, if any         *)
(***************************************************************************)
\* src/geomag/README.md:1-981, one record per top-level statement of each code cell
TCPRIMED_Chap1a ==
  <<
  [cell |-> 1, line |-> 96, reads |-> {}, binds |-> {"subprocess", "sys"}, imports |-> {"subprocess", "sys"}, op |-> ""],
  [cell |-> 1, line |-> 97, reads |-> {}, binds |-> {"packages"}, imports |-> {}, op |-> ""],
  [cell |-> 1, line |-> 98, reads |-> {"ImportError", "__import__", "packages", "subprocess", "sys"}, binds |-> {"package"}, imports |-> {}, op |-> ""],
  [cell |-> 2, line |-> 135, reads |-> {}, binds |-> {"Dataset"}, imports |-> {"netCDF4"}, op |-> ""],
  [cell |-> 2, line |-> 136, reads |-> {}, binds |-> {"np"}, imports |-> {"numpy"}, op |-> ""],
  [cell |-> 3, line |-> 195, reads |-> {}, binds |-> {"requests"}, imports |-> {"requests"}, op |-> ""],
  [cell |-> 3, line |-> 198, reads |-> {}, binds |-> {"NODD_URL"}, imports |-> {}, op |-> ""],
  [cell |-> 3, line |-> 201, reads |-> {}, binds |-> {"FILE_NAME"}, imports |-> {}, op |-> ""],
  [cell |-> 3, line |-> 205, reads |-> {"FILE_NAME", "NODD_URL", "requests"}, binds |-> {"url_response"}, imports |-> {}, op |-> ""],
  [cell |-> 3, line |-> 208, reads |-> {"Dataset", "FILE_NAME", "url_response"}, binds |-> {"DS"}, imports |-> {}, op |-> "Dataset"],
  [cell |-> 4, line |-> 251, reads |-> {"DS", "print"}, binds |-> {}, imports |-> {}, op |-> ""],
  [cell |-> 5, line |-> 290, reads |-> {"DS"}, binds |-> {"root_summary"}, imports |-> {}, op |-> ""],
  [cell |-> 5, line |-> 293, reads |-> {"print", "root_summary"}, binds |-> {}, imports |-> {}, op |-> ""],
  [cell |-> 7, line |-> 382, reads |-> {"DS", "print"}, binds |-> {}, imports |-> {}, op |-> ""],
  [cell |-> 8, line |-> 448, reads |-> {"DS"}, binds |-> {"passive_microwave_group"}, imports |-> {}, op |-> ""],
  [cell |-> 8, line |-> 451, reads |-> {"passive_microwave_group", "print"}, binds |-> {}, imports |-> {}, op |-> ""],
  [cell |-> 9, line |-> 494, reads |-> {"DS"}, binds |-> {"pm_time_instance"}, imports |-> {}, op |-> ""],
  [cell |-> 9, line |-> 497, reads |-> {"pm_time_instance", "print"}, binds |-> {}, imports |-> {}, op |-> ""],
  [cell |-> 10, line |-> 536, reads |-> {"DS"}, binds |-> {"pm_time_long_name"}, imports |-> {}, op |-> ""],
  [cell |-> 10, line |-> 539, reads |-> {"pm_time_long_name", "print"}, binds |-> {}, imports |-> {}, op |-> ""],
  [cell |-> 11, line |-> 578, reads |-> {"DS"}, binds |-> {"pm_time"}, imports |-> {}, op |-> ""],
  [cell |-> 11, line |-> 581, reads |-> {"pm_time", "print"}, binds |-> {}, imports |-> {}, op |-> ""],
  [cell |-> 12, line |-> 621, reads |-> {"DS"}, binds |-> {"passive_microwave_group"}, imports |-> {}, op |-> ""],
  [cell |-> 12, line |-> 624, reads |-> {"passive_microwave_group", "print"}, binds |-> {}, imports |-> {}, op |-> ""],
  [cell |-> 15, line |-> 765, reads |-> {"DS"}, binds |-> {"S1_full_latitude"}, imports |-> {}, op |-> ""],
  [cell |-> 15, line |-> 768, reads |-> {"S1_full_latitude", "print"}, binds |-> {}, imports |-> {}, op |-> ""],
  [cell |-> 15, line |-> 772, reads |-> {"DS", "np"}, binds |-> {"S1_subset_latitude"}, imports |-> {}, op |-> ""],
  [cell |-> 15, line |-> 775, reads |-> {"S1_subset_latitude", "print"}, binds |-> {}, imports |-> {}, op |-> ""],
  [cell |-> 17, line |-> 846, reads |-> {"DS"}, binds |-> {}, imports |-> {}, op |-> "DS.close"]
  >>

\* src/echofish/Echofish_Chapter_2_Frequency_Differencing_with_L2_EK60_Data_clean.ipynb:849-1536, one record per top-level statement of each code cell
Echofish_Chapter_1 ==
  <<
  [cell |-> 1, line |-> 932, reads |-> {}, binds |-> {"sys"}, imports |-> {"sys"}, op |-> ""],
  [cell |-> 1, line |-> 934, reads |-> {}, binds |-> {"subprocess"}, imports |-> {"subprocess"}, op |-> ""],
  [cell |-> 1, line |-> 937, reads |-> {}, binds |-> {"PACKAGES"}, imports |-> {}, op |-> ""],
  [cell |-> 1, line |-> 940, reads |-> {"ImportError", "PACKAGES", "__import__", "subprocess", "sys"}, binds |-> {"package"}, imports |-> {}, op |-> ""],
  [cell |-> 2, line |-> 968, reads |-> {}, binds |-> {"os"}, imports |-> {"os"}, op |-> ""],
  [cell |-> 2, line |-> 969, reads |-> {}, binds |-> {"boto3"}, imports |-> {"boto3"}, op |-> ""],
  [cell |-> 2, line |-> 971, reads |-> {}, binds |-> {"epviz"}, imports |-> {"echopype"}, op |-> ""],
  [cell |-> 2, line |-> 972, reads |-> {}, binds |-> {"plt"}, imports |-> {"matplotlib"}, op |-> ""],
  [cell |-> 2, line |-> 973, reads |-> {}, binds |-> {"ep"}, imports |-> {"echopype"}, op |-> ""],
  [cell |-> 3, line |-> 987, reads |-> {"ep", "print"}, binds |-> {}, imports |-> {}, op |-> ""],
  [cell |-> 4, line |-> 1035, reads |-> {}, binds |-> {"bucket_name"}, imports |-> {}, op |-> ""],
  [cell |-> 4, line |-> 1037, reads |-> {}, binds |-> {"ship_name"}, imports |-> {}, op |-> ""],
  [cell |-> 4, line |-> 1038, reads |-> {}, binds |-> {"cruise_name"}, imports |-> {}, op |-> ""],
  [cell |-> 4, line |-> 1039, reads |-> {}, binds |-> {"sensor_name"}, imports |-> {}, op |-> ""],
  [cell |-> 4, line |-> 1040, reads |-> {}, binds |-> {"file_names"}, imports |-> {}, op |-> ""],
  [cell |-> 5, line |-> 1067, reads |-> {}, binds |-> {"UNSIGNED"}, imports |-> {"botocore"}, op |-> ""],
  [cell |-> 5, line |-> 1068, reads |-> {}, binds |-> {"Config"}, imports |-> {"botocore"}, op |-> ""],
  [cell |-> 5, line |-> 1070, reads |-> {"Config", "UNSIGNED", "boto3"}, binds |-> {"s3"}, imports |-> {}, op |-> ""],
  [cell |-> 5, line |-> 1071, reads |-> {"bucket_name", "cruise_name", "file_names", "os", "print", "s3", "sensor_name", "ship_name"}, binds |-> {"file_name"}, imports |-> {}, op |-> ""],
  [cell |-> 6, line |-> 1097, reads |-> {"os"}, binds |-> {}, imports |-> {}, op |-> ""],
  [cell |-> 7, line |-> 1119, reads |-> {}, binds |-> {"echodata"}, imports |-> {}, op |-> ""],
  [cell |-> 7, line |-> 1120, reads |-> {"echodata", "ep", "file_names", "len", "print", "range", "sensor_name"}, binds |-> {"i"}, imports |-> {}, op |-> ""],
  [cell |-> 8, line |-> 1142, reads |-> {"echodata"}, binds |-> {}, imports |-> {}, op |-> ""],
  [cell |-> 9, line |-> 1171, reads |-> {"echodata"}, binds |-> {}, imports |-> {}, op |-> ""],
  [cell |-> 10, line |-> 1192, reads |-> {}, binds |-> {}, imports |-> {}, op |-> "rm"],
  [cell |-> 11, line |-> 1203, reads |-> {"echodata", "ep"}, binds |-> {"combined_echodata"}, imports |-> {}, op |-> "combine_echodata"],
  [cell |-> 12, line |-> 1225, reads |-> {"combined_echodata", "epviz"}, binds |-> {}, imports |-> {}, op |-> ""],
  [cell |-> 13, line |-> 1247, reads |-> {"combined_echodata", "ep"}, binds |-> {"ds_Sv"}, imports |-> {}, op |-> ""],
  [cell |-> 14, line |-> 1258, reads |-> {"ds_Sv"}, binds |-> {}, imports |-> {}, op |-> ""],
  [cell |-> 15, line |-> 1269, reads |-> {"ds_Sv"}, binds |-> {}, imports |-> {}, op |-> ""],
  [cell |-> 16, line |-> 1289, reads |-> {"ds_Sv", "ep"}, binds |-> {"ds_Sv_freq"}, imports |-> {}, op |-> ""],
  [cell |-> 17, line |-> 1309, reads |-> {"ds_Sv_freq"}, binds |-> {}, imports |-> {}, op |-> ""],
  [cell |-> 18, line |-> 1320, reads |-> {"ds_Sv_freq"}, binds |-> {}, imports |-> {}, op |-> ""],
  [cell |-> 19, line |-> 1342, reads |-> {"ds_Sv_freq", "slice"}, binds |-> {}, imports |-> {}, op |-> ""],
  [cell |-> 20, line |-> 1362, reads |-> {"ds_Sv_freq", "slice"}, binds |-> {}, imports |-> {}, op |-> ""],
  [cell |-> 21, line |-> 1382, reads |-> {"ds_Sv_freq", "slice"}, binds |-> {}, imports |-> {}, op |-> ""],
  [cell |-> 22, line |-> 1402, reads |-> {"ds_Sv_freq", "slice"}, binds |-> {}, imports |-> {}, op |-> ""],
  [cell |-> 23, line |-> 1422, reads |-> {"ds_Sv_freq", "slice"}, binds |-> {}, imports |-> {}, op |-> ""]
  >>

\* src/echofish/Echofish_Chapter_2_Frequency_Differencing_with_L2_EK60_Data_clean.ipynb:1-848, one record per top-level statement of each code cell
Echofish_Chapter_2 ==
  <<
  [cell |-> 1, line |-> 85, reads |-> {}, binds |-> {"sys"}, imports |-> {"sys"}, op |-> ""],
  [cell |-> 1, line |-> 87, reads |-> {}, binds |-> {"subprocess"}, imports |-> {"subprocess"}, op |-> ""],
  [cell |-> 1, line |-> 90, reads |-> {}, binds |-> {"PACKAGES"}, imports |-> {}, op |-> ""],
  [cell |-> 1, line |-> 93, reads |-> {"ImportError", "PACKAGES", "__import__", "subprocess", "sys"}, binds |-> {"package"}, imports |-> {}, op |-> ""],
  [cell |-> 2, line |-> 120, reads |-> {}, binds |-> {"os"}, imports |-> {"os"}, op |-> ""],
  [cell |-> 2, line |-> 121, reads |-> {}, binds |-> {"boto3"}, imports |-> {"boto3"}, op |-> ""],
  [cell |-> 2, line |-> 122, reads |-> {}, binds |-> {"zarr"}, imports |-> {"zarr"}, op |-> ""],
  [cell |-> 2, line |-> 123, reads |-> {}, binds |-> {"xr"}, imports |-> {"xarray"}, op |-> ""],
  [cell |-> 2, line |-> 124, reads |-> {}, binds |-> {"np"}, imports |-> {"numpy"}, op |-> ""],
  [cell |-> 2, line |-> 125, reads |-> {}, binds |-> {"plt"}, imports |-> {"matplotlib"}, op |-> ""],
  [cell |-> 3, line |-> 145, reads |-> {}, binds |-> {"UNSIGNED"}, imports |-> {"botocore"}, op |-> ""],
  [cell |-> 3, line |-> 146, reads |-> {}, binds |-> {"Config"}, imports |-> {"botocore"}, op |-> ""],
  [cell |-> 3, line |-> 148, reads |-> {"Config", "UNSIGNED", "boto3"}, binds |-> {"s3_client"}, imports |-> {}, op |-> ""],
  [cell |-> 4, line |-> 159, reads |-> {}, binds |-> {"WCSD_BUCKET_NAME"}, imports |-> {}, op |-> ""],
  [cell |-> 4, line |-> 161, reads |-> {}, binds |-> {"zarr_file"}, imports |-> {}, op |-> ""],
  [cell |-> 5, line |-> 190, reads |-> {}, binds |-> {"s3fs"}, imports |-> {"s3fs"}, op |-> ""],
  [cell |-> 5, line |-> 191, reads |-> {"s3fs"}, binds |-> {"s3_file_system"}, imports |-> {}, op |-> ""],
  [cell |-> 6, line |-> 217, reads |-> {}, binds |-> {"bucket_name"}, imports |-> {}, op |-> ""],
  [cell |-> 6, line |-> 219, reads |-> {}, binds |-> {"ship_name"}, imports |-> {}, op |-> ""],
  [cell |-> 6, line |-> 220, reads |-> {}, binds |-> {"cruise_name"}, imports |-> {}, op |-> ""],
  [cell |-> 6, line |-> 221, reads |-> {}, binds |-> {"sensor_name"}, imports |-> {}, op |-> ""],
  [cell |-> 6, line |-> 223, reads |-> {"cruise_name"}, binds |-> {"zarr_store"}, imports |-> {}, op |-> ""],
  [cell |-> 6, line |-> 225, reads |-> {"bucket_name", "cruise_name", "sensor_name", "ship_name", "zarr_store"}, binds |-> {"s3_zarr_store_path"}, imports |-> {}, op |-> ""],
  [cell |-> 7, line |-> 236, reads |-> {"print", "s3_zarr_store_path"}, binds |-> {}, imports |-> {}, op |-> ""],
  [cell |-> 8, line |-> 256, reads |-> {"s3_file_system", "s3_zarr_store_path", "s3fs"}, binds |-> {"store"}, imports |-> {}, op |-> ""],
  [cell |-> 9, line |-> 294, reads |-> {"store", "xr"}, binds |-> {"cruise"}, imports |-> {}, op |-> ""],
  [cell |-> 10, line |-> 305, reads |-> {"cruise"}, binds |-> {}, imports |-> {}, op |-> ""],
  [cell |-> 11, line |-> 330, reads |-> {"cruise"}, binds |-> {}, imports |-> {}, op |-> ""],
  [cell |-> 12, line |-> 350, reads |-> {"cruise"}, binds |-> {}, imports |-> {}, op |-> ""],
  [cell |-> 13, line |-> 370, reads |-> {"cruise"}, binds |-> {}, imports |-> {}, op |-> ""],
  [cell |-> 14, line |-> 381, reads |-> {"cruise"}, binds |-> {}, imports |-> {}, op |-> ""],
  [cell |-> 15, line |-> 392, reads |-> {"cruise"}, binds |-> {}, imports |-> {}, op |-> ""],
  [cell |-> 16, line |-> 412, reads |-> {"cruise"}, binds |-> {}, imports |-> {}, op |-> ""],
  [cell |-> 17, line |-> 441, reads |-> {"cruise", "print"}, binds |-> {}, imports |-> {}, op |-> ""],
  [cell |-> 17, line |-> 443, reads |-> {"cruise", "print"}, binds |-> {}, imports |-> {}, op |-> ""],
  [cell |-> 17, line |-> 445, reads |-> {"cruise", "print"}, binds |-> {}, imports |-> {}, op |-> ""],
  [cell |-> 18, line |-> 471, reads |-> {"cruise"}, binds |-> {}, imports |-> {}, op |-> ""],
  [cell |-> 19, line |-> 501, reads |-> {"np"}, binds |-> {"start_time"}, imports |-> {}, op |-> ""],
  [cell |-> 19, line |-> 502, reads |-> {"np"}, binds |-> {"end_time"}, imports |-> {}, op |-> ""],
  [cell |-> 19, line |-> 504, reads |-> {"cruise", "end_time", "start_time"}, binds |-> {"select_times"}, imports |-> {}, op |-> ""],
  [cell |-> 20, line |-> 524, reads |-> {"cruise", "select_times"}, binds |-> {"Sv_38"}, imports |-> {}, op |-> ""],
  [cell |-> 20, line |-> 525, reads |-> {"Sv_38", "print"}, binds |-> {}, imports |-> {}, op |-> ""],
  [cell |-> 21, line |-> 545, reads |-> {"Sv_38"}, binds |-> {}, imports |-> {}, op |-> ""],
  [cell |-> 22, line |-> 556, reads |-> {"Sv_38", "type"}, binds |-> {}, imports |-> {}, op |-> ""],
  [cell |-> 23, line |-> 567, reads |-> {"Sv_38", "np", "print"}, binds |-> {}, imports |-> {}, op |-> ""],
  [cell |-> 24, line |-> 578, reads |-> {"Sv_38"}, binds |-> {}, imports |-> {}, op |-> ""],
  [cell |-> 24, line |-> 580, reads |-> {"plt"}, binds |-> {}, imports |-> {}, op |-> ""],
  [cell |-> 25, line |-> 600, reads |-> {}, binds |-> {"start_depth"}, imports |-> {}, op |-> ""],
  [cell |-> 25, line |-> 601, reads |-> {}, binds |-> {"end_depth"}, imports |-> {}, op |-> ""],
  [cell |-> 25, line |-> 603, reads |-> {"cruise", "end_depth", "start_depth"}, binds |-> {"select_depths"}, imports |-> {}, op |-> ""],
  [cell |-> 26, line |-> 614, reads |-> {"Sv_38", "select_depths"}, binds |-> {"Sv_38_subset"}, imports |-> {}, op |-> ""],
  [cell |-> 27, line |-> 634, reads |-> {"Sv_38_subset"}, binds |-> {}, imports |-> {}, op |-> ""],
  [cell |-> 27, line |-> 635, reads |-> {"plt"}, binds |-> {}, imports |-> {}, op |-> ""],
  [cell |-> 28, line |-> 655, reads |-> {"cruise", "select_depths", "select_times"}, binds |-> {"Sv_18"}, imports |-> {}, op |-> ""],
  [cell |-> 28, line |-> 656, reads |-> {"cruise", "select_depths", "select_times"}, binds |-> {"Sv_120"}, imports |-> {}, op |-> ""],
  [cell |-> 28, line |-> 657, reads |-> {"cruise", "select_depths", "select_times"}, binds |-> {"Sv_200"}, imports |-> {}, op |-> ""],
  [cell |-> 29, line |-> 677, reads |-> {"Sv_120", "select_depths"}, binds |-> {"Sv_120_subset"}, imports |-> {}, op |-> ""],
  [cell |-> 30, line |-> 688, reads |-> {"Sv_120_subset"}, binds |-> {}, imports |-> {}, op |-> ""],
  [cell |-> 30, line |-> 689, reads |-> {"plt"}, binds |-> {}, imports |-> {}, op |-> ""],
  [cell |-> 31, line |-> 711, reads |-> {"Sv_120"}, binds |-> {"first_freq_array"}, imports |-> {}, op |-> ""],
  [cell |-> 31, line |-> 712, reads |-> {"first_freq_array", "int"}, binds |-> {"first_freq"}, imports |-> {}, op |-> ""],
  [cell |-> 31, line |-> 714, reads |-> {"Sv_38"}, binds |-> {"second_freq_array"}, imports |-> {}, op |-> ""],
  [cell |-> 31, line |-> 715, reads |-> {"int", "second_freq_array"}, binds |-> {"second_freq"}, imports |-> {}, op |-> ""],
  [cell |-> 31, line |-> 717, reads |-> {"first_freq_array", "second_freq_array"}, binds |-> {"Sv_select_diff"}, imports |-> {}, op |-> ""],
  [cell |-> 32, line |-> 728, reads |-> {"Sv_select_diff"}, binds |-> {"Sv_select_diff"}, imports |-> {}, op |-> ""],
  [cell |-> 33, line |-> 739, reads |-> {"Sv_select_diff"}, binds |-> {}, imports |-> {}, op |-> ""],
  [cell |-> 33, line |-> 740, reads |-> {"first_freq", "plt", "second_freq"}, binds |-> {}, imports |-> {}, op |-> ""]
  >>

\* src/echofish/Echofish_Chapter_2_Frequency_Differencing_with_L2_EK60_Data_clean.ipynb:1537-2300, one record per top-level statement of each code cell
Echofish_Chapter_3 ==
  <<
  [cell |-> 1, line |-> 1619, reads |-> {}, binds |-> {"sys"}, imports |-> {"sys"}, op |-> ""],
  [cell |-> 1, line |-> 1621, reads |-> {}, binds |-> {"subprocess"}, imports |-> {"subprocess"}, op |-> ""],
  [cell |-> 1, line |-> 1624, reads |-> {}, binds |-> {"PACKAGES"}, imports |-> {}, op |-> ""],
  [cell |-> 1, line |-> 1627, reads |-> {"ImportError", "PACKAGES", "__import__", "subprocess", "sys"}, binds |-> {"package"}, imports |-> {}, op |-> ""],
  [cell |-> 2, line |-> 1646, reads |-> {}, binds |-> {"s3fs"}, imports |-> {"s3fs"}, op |-> ""],
  [cell |-> 2, line |-> 1647, reads |-> {}, binds |-> {"folium"}, imports |-> {"folium"}, op |-> ""],
  [cell |-> 2, line |-> 1648, reads |-> {}, binds |-> {"os"}, imports |-> {"os"}, op |-> ""],
  [cell |-> 2, line |-> 1649, reads |-> {}, binds |-> {"zarr"}, imports |-> {"zarr"}, op |-> ""],
  [cell |-> 2, line |-> 1650, reads |-> {}, binds |-> {"boto3"}, imports |-> {"boto3"}, op |-> ""],
  [cell |-> 2, line |-> 1651, reads |-> {}, binds |-> {"np"}, imports |-> {"numpy"}, op |-> ""],
  [cell |-> 2, line |-> 1652, reads |-> {}, binds |-> {"pd"}, imports |-> {"pandas"}, op |-> ""],
  [cell |-> 2, line |-> 1653, reads |-> {}, binds |-> {"xr"}, imports |-> {"xarray"}, op |-> ""],
  [cell |-> 2, line |-> 1654, reads |-> {}, binds |-> {"gpd"}, imports |-> {"geopandas"}, op |-> ""],
  [cell |-> 2, line |-> 1655, reads |-> {}, binds |-> {"UNSIGNED"}, imports |-> {"botocore"}, op |-> ""],
  [cell |-> 2, line |-> 1656, reads |-> {}, binds |-> {"Config"}, imports |-> {"botocore"}, op |-> ""],
  [cell |-> 2, line |-> 1658, reads |-> {}, binds |-> {"plt"}, imports |-> {"matplotlib"}, op |-> ""],
  [cell |-> 3, line |-> 1683, reads |-> {"Config", "UNSIGNED", "boto3"}, binds |-> {"s3"}, imports |-> {}, op |-> ""],
  [cell |-> 5, line |-> 1705, reads |-> {"s3fs"}, binds |-> {"s3_file_system"}, imports |-> {}, op |-> ""],
  [cell |-> 6, line |-> 1716, reads |-> {}, binds |-> {"bucket_name"}, imports |-> {}, op |-> ""],
  [cell |-> 6, line |-> 1717, reads |-> {}, binds |-> {"ship_name"}, imports |-> {}, op |-> ""],
  [cell |-> 6, line |-> 1718, reads |-> {}, binds |-> {"cruise_name"}, imports |-> {}, op |-> ""],
  [cell |-> 6, line |-> 1719, reads |-> {}, binds |-> {"sensor_name"}, imports |-> {}, op |-> ""],
  [cell |-> 6, line |-> 1720, reads |-> {}, binds |-> {"zarr_store"}, imports |-> {}, op |-> ""],
  [cell |-> 6, line |-> 1721, reads |-> {"bucket_name", "cruise_name", "sensor_name", "ship_name", "zarr_store"}, binds |-> {"s3_zarr_store_path"}, imports |-> {}, op |-> ""],
  [cell |-> 7, line |-> 1732, reads |-> {"s3_file_system", "s3_zarr_store_path", "s3fs"}, binds |-> {"store"}, imports |-> {}, op |-> ""],
  [cell |-> 8, line |-> 1743, reads |-> {"store", "xr"}, binds |-> {"cruise"}, imports |-> {}, op |-> ""],
  [cell |-> 8, line |-> 1744, reads |-> {"cruise"}, binds |-> {}, imports |-> {}, op |-> ""],
  [cell |-> 9, line |-> 1774, reads |-> {"cruise"}, binds |-> {}, imports |-> {}, op |-> ""],
  [cell |-> 10, line |-> 1794, reads |-> {"cruise"}, binds |-> {}, imports |-> {}, op |-> ""],
  [cell |-> 11, line |-> 1814, reads |-> {"cruise"}, binds |-> {}, imports |-> {}, op |-> ""],
  [cell |-> 12, line |-> 1846, reads |-> {"cruise", "pd"}, binds |-> {"gps_df"}, imports |-> {}, op |-> ""],
  [cell |-> 12, line |-> 1848, reads |-> {"gps_df"}, binds |-> {}, imports |-> {}, op |-> ""],
  [cell |-> 13, line |-> 1868, reads |-> {"gpd", "gps_df"}, binds |-> {"gps_gdf"}, imports |-> {}, op |-> ""],
  [cell |-> 13, line |-> 1874, reads |-> {"gps_gdf"}, binds |-> {}, imports |-> {}, op |-> ""],
  [cell |-> 14, line |-> 1894, reads |-> {"gps_gdf"}, binds |-> {"geojson"}, imports |-> {}, op |-> ""],
  [cell |-> 14, line |-> 1895, reads |-> {"geojson"}, binds |-> {}, imports |-> {}, op |-> ""],
  [cell |-> 15, line |-> 1917, reads |-> {"gps_gdf"}, binds |-> {}, imports |-> {}, op |-> ""],
  [cell |-> 16, line |-> 1948, reads |-> {"gps_gdf", "str"}, binds |-> {}, imports |-> {}, op |-> ""],
  [cell |-> 17, line |-> 1959, reads |-> {}, binds |-> {"mc"}, imports |-> {"mapclassify"}, op |-> ""],
  [cell |-> 18, line |-> 1970, reads |-> {"gps_gdf"}, binds |-> {}, imports |-> {}, op |-> ""],
  [cell |-> 19, line |-> 1992, reads |-> {}, binds |-> {"geom"}, imports |-> {"shapely"}, op |-> ""],
  [cell |-> 20, line |-> 2003, reads |-> {"geom", "gps_gdf", "zip"}, binds |-> {"linestring"}, imports |-> {}, op |-> ""],
  [cell |-> 22, line |-> 2025, reads |-> {"len", "linestring"}, binds |-> {}, imports |-> {}, op |-> ""],
  [cell |-> 23, line |-> 2036, reads |-> {"linestring"}, binds |-> {}, imports |-> {}, op |-> ""],
  [cell |-> 24, line |-> 2058, reads |-> {"linestring"}, binds |-> {"lineSimplified"}, imports |-> {}, op |-> ""],
  [cell |-> 25, line |-> 2078, reads |-> {"len", "linestring", "print"}, binds |-> {}, imports |-> {}, op |-> ""],
  [cell |-> 26, line |-> 2089, reads |-> {"len", "lineSimplified", "print"}, binds |-> {}, imports |-> {}, op |-> ""],
  [cell |-> 27, line |-> 2100, reads |-> {}, binds |-> {"display"}, imports |-> {"IPython"}, op |-> ""],
  [cell |-> 28, line |-> 2122, reads |-> {"gps_gdf"}, binds |-> {"centroid"}, imports |-> {}, op |-> ""],
  [cell |-> 29, line |-> 2142, reads |-> {"centroid"}, binds |-> {"center_latitude"}, imports |-> {}, op |-> ""],
  [cell |-> 29, line |-> 2143, reads |-> {"centroid"}, binds |-> {"center_longitude"}, imports |-> {}, op |-> ""],
  [cell |-> 30, line |-> 2163, reads |-> {"center_latitude", "center_longitude", "folium"}, binds |-> {"m"}, imports |-> {}, op |-> ""],
  [cell |-> 30, line |-> 2165, reads |-> {"folium", "lineSimplified", "m"}, binds |-> {}, imports |-> {}, op |-> ""],
  [cell |-> 31, line |-> 2176, reads |-> {"display", "m"}, binds |-> {}, imports |-> {}, op |-> ""]
  >>

NotebookIds ==
  {"TCPRIMED_Chap1a", "Echofish_Chapter_1", "Echofish_Chapter_2",
   "Echofish_Chapter_3"}

\* A run in document order with two neighbouring cells of Chapter 3 exchanged:
\* the cell that builds linestring placed before the cell importing geom.
NotebookCellsSwapped(n) ==
  CASE n = "TCPRIMED_Chap1a" -> TCPRIMED_Chap1a
    [] n = "Echofish_Chapter_1" -> Echofish_Chapter_1
    [] n = "Echofish_Chapter_2" -> Echofish_Chapter_2
    [] n = "Echofish_Chapter_3" ->
         [i \in 1..Len(Echofish_Chapter_3) |->
            IF Echofish_Chapter_3[i].line = 1992
              THEN Echofish_Chapter_3[i + 1]
            ELSE IF Echofish_Chapter_3[i].line = 2003
              THEN Echofish_Chapter_3[i - 1]
            ELSE Echofish_Chapter_3[i]]

\* Chapter 1a with DS.close() placed before the statement that reads the
\* latitude subset instead of after it.
NotebookCloseEarly(n) ==
  CASE n = "TCPRIMED_Chap1a" ->
         [i \in 1..Len(TCPRIMED_Chap1a) |->
            IF TCPRIMED_Chap1a[i].line = 768
              THEN TCPRIMED_Chap1a[Len(TCPRIMED_Chap1a)]
            ELSE IF TCPRIMED_Chap1a[i].line = 846
              THEN TCPRIMED_Chap1a[i - 3]
            ELSE TCPRIMED_Chap1a[i]]
    [] n = "Echofish_Chapter_1" -> Echofish_Chapter_1
    [] n = "Echofish_Chapter_2" -> Echofish_Chapter_2
    [] n = "Echofish_Chapter_3" -> Echofish_Chapter_3

\* The statements of notebook n in document order.
Notebook(n) ==
  CASE n = "TCPRIMED_Chap1a" -> TCPRIMED_Chap1a
    [] n = "Echofish_Chapter_1" -> Echofish_Chapter_1
    [] n = "Echofish_Chapter_2" -> Echofish_Chapter_2
    [] n = "Echofish_Chapter_3" -> Echofish_Chapter_3

\* Names every Python kernel binds before the first cell runs.
Builtins ==
  {"print", "int", "len", "type", "range", "zip", "str", "slice",
   "__import__", "ImportError"}


(***************************************************************************)
(* SpecRun: one notebook, its code cells executed once in document order.  *)
(***************************************************************************)

\* The statement the kernel executes next.
Current == Notebook(nb)[pc]

\* A statement whose names are all bound can still fail at run time when it
\* imports, calls or indexes something (a missing package, a failed
\* download, a missing group); a plain literal assignment cannot.
CanRaise(s) == s.reads # {} \/ s.imports # {}

\* A close that leaves the handle as it was.
DsAfterNoClose(st, s) ==
  IF s.op = "Dataset" THEN "open" ELSE st

\* State of the netCDF4 handle DS after statement s:
\* DS = Dataset(...) opens it, DS.close() closes it.
DsAfter(st, s) ==
  IF s.op = "Dataset" THEN "open"
  ELSE IF s.op = "DS.close" THEN "closed"
  ELSE st

\* A statement that touches DS while the handle is not open.
DsStrayAccess(st, s) ==
  /\ "DS" \in s.reads
  /\ st # "open"

IdleRun ==
  /\ nb = "none" /\ pc = 0 /\ bound = {} /\ status = "idle"
  /\ dsState = "unopened" /\ dsOpens = 0 /\ dsCloses = 0 /\ dsStray = FALSE

IdleInstall ==
  /\ inb = "none" /\ env = {} /\ version = <<>> /\ idx = 0
  /\ outcomes = <<>>
  /\ pipLog = <<>> /\ istatus = "idle"

IdleXr ==
  /\ cruise = <<>> /\ xpc = "idle" /\ select_times = <<>>
  /\ select_depths = <<>> /\ Sv_38 = <<>> /\ Sv_38_subset = <<>>
  /\ Sv_18 = <<>> /\ Sv_120 = <<>> /\ Sv_200 = <<>> /\ Sv_120_subset = <<>>
  /\ first_freq_array = <<>> /\ second_freq_array = <<>>
  /\ Sv_select_diff = <<>>
  /\ first_freq = 0 /\ second_freq = 0 /\ title = <<>>

IdleGeo ==
  /\ gps_df = <<>> /\ gpc = "idle" /\ gps_gdf = <<>> /\ linestring = <<>>
  /\ lineSimplified = <<>>
  /\ centroid = <<>> /\ center_latitude = 0 /\ center_longitude = 0
  /\ m = <<>>

IdleCh1 ==
  /\ run = 0 /\ cell = "idle" /\ cstatus = "idle" /\ fileIdx = 0
  /\ downloads = <<>> /\ localFiles = {} /\ echodata = <<>>
  /\ zarr = "absent" /\ rmFound = "none" /\ combineFound = "none"

IdleRead ==
  /\ server = <<>> /\ rcell = "idle" /\ rstatus = "idle"
  /\ url_response = <<>> /\ DS = <<>> /\ dsCalls = <<>>
  /\ S1_full_latitude = <<>> /\ S1_subset_latitude = <<>>

IdleName == name = <<>> /\ start = <<>> /\ nstatus = "idle"

IdleRest == IdleCh1 /\ IdleRead /\ IdleName

InitRun ==
  /\ nb \in NotebookIds
  /\ pc = 1
  /\ bound = {}
  /\ status = "running"
  /\ dsState = "unopened" /\ dsOpens = 0 /\ dsCloses = 0 /\ dsStray = FALSE
  /\ IdleInstall /\ IdleXr /\ IdleGeo /\ IdleRest

\* The kernel executes the next statement.  A name that is not bound yet
\* stops the run with a NameError.
ExecStatement ==
  /\ status = "running"
  /\ pc <= Len(Notebook(nb))
  /\ IF Current.reads \subseteq (bound \cup Builtins)
       THEN /\ bound' = bound \cup Current.binds
            /\ pc' = pc + 1
            /\ status' = status
            /\ dsState' = DsAfter(dsState, Current)
            /\ dsOpens' = IF Current.op = "Dataset" THEN dsOpens + 1 ELSE dsOpens
            /\ dsCloses' = IF Current.op = "DS.close" THEN dsCloses + 1 ELSE dsCloses
            /\ dsStray' = (dsStray \/ DsStrayAccess(dsState, Current))
       ELSE /\ status' = "NameError"
            /\ UNCHANGED <<bound, pc, dsState, dsOpens, dsCloses, dsStray>>
  /\ UNCHANGED <<nb, varsInstall, varsXr, varsGeo, varsRest>>

\* The statement raises; nothing catches it, the run stops at this cell.
StatementRaises ==
  /\ status = "running"
  /\ pc <= Len(Notebook(nb))
  /\ Current.reads \subseteq (bound \cup Builtins)
  /\ CanRaise(Current)
  /\ status' = "raised"
  /\ dsStray' = (dsStray \/ DsStrayAccess(dsState, Current))
  /\ UNCHANGED <<nb, pc, bound, dsState, dsOpens, dsCloses>>
  /\ UNCHANGED <<varsInstall, varsXr, varsGeo, varsRest>>

\* The last cell has run.
RunCompletes ==
  /\ status = "running"
  /\ pc > Len(Notebook(nb))
  /\ status' = "done"
  /\ UNCHANGED <<nb, pc, bound, dsState, dsOpens, dsCloses, dsStray>>
  /\ UNCHANGED <<varsInstall, varsXr, varsGeo, varsRest>>

NextRun == ExecStatement \/ StatementRaises \/ RunCompletes

SpecRun == InitRun /\ [][NextRun]_vars

\* C1: in each of the four notebooks, run once in document order, every name
\* a statement reads was bound by an earlier statement (or is a builtin): the
\* run never stops with a NameError, and whatever statement is about to run
\* finds all the names it reads bound.
C1_NamesBoundBeforeRead ==
  /\ status # "NameError"
  /\ (status = "running" /\ pc <= Len(Notebook(nb)))
       => Current.reads \subseteq (bound \cup Builtins)

\* Chapter 3, the notebook with the most imports spread over its cells, has
\* been run to its last statement.
C1_Witness ==
  /\ status = "done"
  /\ nb = "Echofish_Chapter_3"
  /\ "display" \in bound

TCPRIMED == "TCPRIMED_Chap1a"

\* C7: in a top-to-bottom run of TC PRIMED Chapter 1a in which no cell raises,
\* DS is opened exactly once, closed exactly once, every access to DS happens
\* while it is open (after the open, before the close), and at the end of the
\* run the file is closed.
C7_OpenUseClose ==
  nb = TCPRIMED =>
    /\ ~dsStray
    /\ dsOpens <= 1 /\ dsCloses <= 1
    /\ (dsState = "unopened") = (dsOpens = 0)
    /\ (dsState = "closed") = (dsCloses = 1)
    /\ status = "done" => (dsOpens = 1 /\ dsCloses = 1 /\ dsState = "closed")

\* The run of Chapter 1a has completed, after reading DS and closing it.
C7_Witness ==
  /\ nb = TCPRIMED
  /\ status = "done"
  /\ "S1_subset_latitude" \in bound
  /\ dsCloses = 1

\* C8 as stated: once DS has been opened, every execution that has ended,
\* also one stopped by a raising cell, has closed it.
C8_ClosedInEveryExecution ==
  (nb = TCPRIMED /\ dsOpens >= 1 /\ status \in {"done", "raised"})
    => dsState = "closed"

\* C8 amended: once DS has been opened, an execution that has ended has
\* closed DS exactly when it ran to the last cell; an execution stopped by a
\* raising cell between the open and DS.close() leaves DS open.
C8_ClosedIffCompleted ==
  (nb = TCPRIMED /\ dsOpens >= 1 /\ status \in {"done", "raised"})
    => ((dsState = "closed") <=> (status = "done"))

\* A cell between the open and DS.close() raised and the run stopped there.
C8_Witness ==
  /\ nb = TCPRIMED
  /\ status = "raised"
  /\ dsOpens = 1
  /\ dsState = "open"


(***************************************************************************)
(* SpecInstall: the install-check loop of the first code cell.             *)
(***************************************************************************)

\* Largest number of packages missing from the environment at the start.
MaxMissing == 3

\* Largest number of further packages one pip install brings in as
\* dependencies of the package it was asked for.
MaxDeps == 1

\* The list the loop of notebook n iterates over.
PACKAGES(n) ==
  CASE n = "TCPRIMED_Chap1a" -> <<"netCDF4", "numpy">>
    [] n = "Echofish_Chapter_1" -> <<"boto3", "botocore", "echopype">>
    [] n = "Echofish_Chapter_2" ->
         <<"boto3", "numpy", "matplotlib", "xarray", "zarr", "s3fs">>
    [] n = "Echofish_Chapter_3" ->
         <<"numpy", "pandas", "geopandas", "matplotlib", "xarray", "zarr",
           "folium", "boto3", "s3fs", "mapclassify">>

\* The requirement handed to pip for package p: Chapters 1 and 3 pin a version.
PipArg(n, p) ==
  IF n = "Echofish_Chapter_1" /\ p = "echopype" THEN "echopype==0.8.4"
  ELSE IF n = "Echofish_Chapter_3" /\ p = "geopandas" THEN "geopandas==0.13.1"
  ELSE p

\* The version the install cell of notebook n pins for package p, "any"
\* where it pins none.
PinnedVersion(n, p) ==
  IF n = "Echofish_Chapter_1" /\ p = "echopype" THEN "0.8.4"
  ELSE IF n = "Echofish_Chapter_3" /\ p = "geopandas" THEN "0.13.1"
  ELSE "any"

\* The packages of the list of notebook n that are installed with a pin.
Pinned(n) == {p \in {PACKAGES(n)[i] : i \in 1..Len(PACKAGES(n))} :
                PinnedVersion(n, p) # "any"}

\* Modules of the standard library the notebooks import.
StdLib == {"sys", "subprocess", "os"}

\* Third-party packages imported by the cells after the install cell.
LaterImports(n) ==
  UNION {Notebook(n)[i].imports : i \in {j \in 1..Len(Notebook(n)) :
                                           Notebook(n)[j].cell > 1}}
    \ StdLib

Range(s) == {s[i] : i \in 1..Len(s)}

\* The packages whose presence matters to notebook n.
Universe(n) == Range(PACKAGES(n)) \cup LaterImports(n)

\* What __import__(p) can do: a package that is not installed raises
\* ImportError (ModuleNotFoundError); an installed one imports, or fails
\* while its module body runs with some other exception.
ImportResults(p, e) ==
  IF p \in e THEN {"ok", "Exception"} ELSE {"ImportError"}

\* An except clause that catches everything.
HandledAny(r) == r # "ok"

\* except ImportError: the only exception the loop handles.
Handled(r) == r = "ImportError"

InitInstall ==
  /\ inb \in NotebookIds
  /\ env \in {e \in SUBSET Universe(inb) :
                Cardinality(Universe(inb) \ e) <= MaxMissing}
  /\ version \in [Pinned(inb) -> {"none", "other"} \cup
                                   {PinnedVersion(inb, p) : p \in Pinned(inb)}]
  /\ \A p \in Pinned(inb) : version[p] = "none" <=> p \notin env
  /\ idx = 1
  /\ outcomes = <<>>
  /\ pipLog = <<>>
  /\ istatus = "loop"
  /\ IdleRun /\ IdleXr /\ IdleGeo /\ IdleRest

Package == PACKAGES(inb)[idx]

InLoop == istatus = "loop" /\ idx <= Len(PACKAGES(inb))

\* try: __import__(package) succeeds; the loop goes on to the next package.
ImportSucceeds ==
  /\ InLoop
  /\ "ok" \in ImportResults(Package, env)
  /\ outcomes' = Append(outcomes, [package |-> Package, result |-> "ok",
                                   pip |-> "not run"])
  /\ idx' = idx + 1
  /\ UNCHANGED <<inb, env, version, pipLog, istatus>>
  /\ UNCHANGED <<varsRun, varsXr, varsGeo, varsRest>>

\* __import__(package) raises an exception the except clause handles;
\* subprocess.check_call runs pip install, which exits with status 0.  The
\* package is installed, at the pinned version if the cell pins one, with
\* some of its dependencies; no package of the lists depends on echopype
\* or geopandas, the pinned ones.
ImportFailsPipInstalls ==
  /\ InLoop
  /\ \E r \in ImportResults(Package, env) \ {"ok"} :
       /\ Handled(r)
       /\ outcomes' = Append(outcomes, [package |-> Package, result |-> r,
                                        pip |-> "ok"])
  /\ pipLog' = Append(pipLog, PipArg(inb, Package))
  /\ \E deps \in {d \in SUBSET ((Universe(inb) \ env) \ Pinned(inb)) :
                    Cardinality(d) <= MaxDeps} :
       env' = env \cup {Package} \cup deps
  /\ version' = [p \in Pinned(inb) |->
                   IF p = Package THEN PinnedVersion(inb, p) ELSE version[p]]
  /\ idx' = idx + 1
  /\ UNCHANGED <<inb, istatus>>
  /\ UNCHANGED <<varsRun, varsXr, varsGeo, varsRest>>

\* As above, but pip exits with a non-zero status: check_call raises
\* CalledProcessError out of the except block and the cell stops.
ImportFailsPipFails ==
  /\ InLoop
  /\ \E r \in ImportResults(Package, env) \ {"ok"} :
       /\ Handled(r)
       /\ outcomes' = Append(outcomes, [package |-> Package, result |-> r,
                                        pip |-> "failed"])
  /\ pipLog' = Append(pipLog, PipArg(inb, Package))
  /\ istatus' = "raised"
  /\ UNCHANGED <<inb, env, version, idx>>
  /\ UNCHANGED <<varsRun, varsXr, varsGeo, varsRest>>

\* __import__(package) raises an exception the except clause does not
\* handle: it leaves the cell.
ImportPropagates ==
  /\ InLoop
  /\ \E r \in ImportResults(Package, env) \ {"ok"} :
       /\ ~Handled(r)
       /\ outcomes' = Append(outcomes, [package |-> Package, result |-> r,
                                        pip |-> "not run"])
  /\ istatus' = "raised"
  /\ UNCHANGED <<inb, env, version, idx, pipLog>>
  /\ UNCHANGED <<varsRun, varsXr, varsGeo, varsRest>>

\* The list is exhausted: the cell completes without raising.
LoopEnds ==
  /\ istatus = "loop"
  /\ idx > Len(PACKAGES(inb))
  /\ istatus' = "done"
  /\ UNCHANGED <<inb, env, version, idx, outcomes, pipLog>>
  /\ UNCHANGED <<varsRun, varsXr, varsGeo, varsRest>>

NextInstall ==
  \/ ImportSucceeds
  \/ ImportFailsPipInstalls
  \/ ImportFailsPipFails
  \/ ImportPropagates
  \/ LoopEnds

SpecInstall == InitInstall /\ [][NextInstall]_vars

\* The requirements pip is expected to have been asked for, in order: one
\* for each visited package whose import raised ImportError.
RECURSIVE ExpectedPip(_, _)
ExpectedPip(n, os) ==
  IF os = <<>> THEN <<>>
  ELSE IF Head(os).result = "ImportError"
    THEN <<PipArg(n, Head(os).package)>> \o ExpectedPip(n, Tail(os))
  ELSE ExpectedPip(n, Tail(os))

\* C5: in every install-check cell the loop visits the packages in list
\* order, attempts to import each one, and invokes pip install exactly for
\* the visited packages whose import raised ImportError, in that order; a
\* cell that completes without raising has visited the whole list.
C5_InstallExactlyFailedImports ==
  istatus # "idle" =>
    /\ Len(outcomes) <= Len(PACKAGES(inb))
    /\ \A i \in 1..Len(outcomes) : outcomes[i].package = PACKAGES(inb)[i]
    /\ istatus = "loop" => Len(outcomes) = idx - 1
    /\ istatus = "done" => Len(outcomes) = Len(PACKAGES(inb))
    /\ pipLog = ExpectedPip(inb, outcomes)

\* A Chapter 3 check has completed after installing some packages (the
\* pinned geopandas among them) and importing others successfully.
C5_Witness ==
  /\ inb = "Echofish_Chapter_3"
  /\ istatus = "done"
  /\ Len(pipLog) >= 2
  /\ "geopandas==0.13.1" \in Range(pipLog)
  /\ \E i \in 1..Len(outcomes) : outcomes[i].result = "ok"

\* C6 as stated: once the install-check cell of Chapter 1a has completed
\* without raising, every third-party package a later cell imports (netCDF4,
\* numpy and requests) is available: it was imported successfully by the
\* check loop or installed by it.
C6_LaterImportsAvailable ==
  (inb = TCPRIMED /\ istatus = "done") => LaterImports(inb) \subseteq env

\* C14 as stated: after the Chapter 1 install cell has completed, the
\* echopype the later cells import is version 0.8.4, whether echopype was
\* already installed or was installed by the cell.
C14_EchopypePinned ==
  (inb = "Echofish_Chapter_1" /\ istatus = "done") =>
    version["echopype"] = "0.8.4"

(***************************************************************************)
(* SpecXr: the selections and the frequency differencing of Echofish       *)
(* Chapter 2 on a Level 2 store.  A DataArray is a record of its           *)
(* coordinate labels (depth, time), its scalar frequency coordinate and    *)
(* its values by position: data[i][j] belongs to depth[i] and time[j].     *)
(* Times are seconds since 2015-07-19T00:00:00, depths are metres.         *)
(***************************************************************************)

\* Largest number of time samples of the store.
MaxTimes == 2

\* Largest number of depth labels of the store below the 0 m label.
MaxDepths == 2

\* Number of different Sv fields the store is drawn from.
MaxSeed == 3

\* Value of a masked or missing cell.
NaN == 1000

start_time == 68400
end_time == 72000
start_depth == 0
end_depth == 500

Frequencies == {18000, 38000, 70000, 120000, 200000}

\* Time samples around both ends of the hour, depth labels around 500 m.
TimeCandidates ==
  {start_time - 1, start_time, start_time + 1,
   end_time - 1, end_time, end_time + 1}
DepthCandidates == {1, end_depth - 1, end_depth, end_depth + 1}

\* The strictly increasing sequences over S of length lo..hi.
IncreasingSeqs(S, lo, hi) ==
  {s \in UNION {[1..n -> S] : n \in lo..hi} :
     \A i \in 1..(Len(s) - 1) : s[i] < s[i + 1]}

\* An Sv field in dB with missing cells, one field per seed.
SvField(seed, f, i, j) ==
  LET h == (seed * 7 + (f \div 1000) * 11 + i * 5 + j * 3) % 13
  IN IF h = 0 THEN NaN ELSE 0 - (30 + 4 * h)

\* The stores xr.open_zarr can return: depth grid starting at 0 m and
\* increasing downward, time increasing.
Stores ==
  {[time |-> ts, depth |-> <<0>> \o ds,
    Sv |-> [f \in Frequencies |->
              [i \in 1..(Len(ds) + 1) |->
                 [j \in 1..Len(ts) |-> SvField(seed, f, i, j)]]]] :
     ts \in IncreasingSeqs(TimeCandidates, 1, MaxTimes),
     ds \in IncreasingSeqs(DepthCandidates, 0, MaxDepths),
     seed \in 1..MaxSeed}

Unset == <<>>

InitXr ==
  /\ cruise \in Stores
  /\ xpc = "c19"
  /\ select_times = Unset /\ select_depths = Unset
  /\ Sv_38 = Unset /\ Sv_38_subset = Unset /\ Sv_18 = Unset
  /\ Sv_120 = Unset /\ Sv_200 = Unset /\ Sv_120_subset = Unset
  /\ first_freq_array = Unset /\ second_freq_array = Unset
  /\ Sv_select_diff = Unset
  /\ first_freq = 0 /\ second_freq = 0 /\ title = Unset
  /\ IdleRun /\ IdleInstall /\ IdleGeo /\ IdleRest

\* Position of a label in a coordinate.
IndexOf(labels, l) == CHOOSE i \in 1..Len(labels) : labels[i] = l

HasLabel(labels, l) == \E i \in 1..Len(labels) : labels[i] = l

\* da.sel(depth=d, time=t)
At(da, d, t) == da.data[IndexOf(da.depth, d)][IndexOf(da.time, t)]

\* cruise.sel(frequency=f).Sv
Sel(store, f) ==
  [frequency |-> f, depth |-> store.depth, time |-> store.time,
   data |-> store.Sv[f]]

\* A boolean DataArray over one dimension; NoCond stands for a dimension
\* the condition does not have.
NoCond == [dim |-> "none", labels |-> <<>>, mask |-> <<>>]

CondTrue(c, l) ==
  \/ c.dim = "none"
  \/ \E i \in 1..Len(c.labels) : c.labels[i] = l /\ c.mask[i]

Aligned(c, l) == c.dim = "none" \/ HasLabel(c.labels, l)

\* The comparison with both ends of the hour included.
TimeCondInclusive(times, lo, hi) ==
  [dim |-> "time", labels |-> times,
   mask |-> [i \in 1..Len(times) |-> times[i] >= lo /\ times[i] <= hi]]

\* (cruise.time > start_time) & (cruise.time < end_time)
TimeCond(times, lo, hi) ==
  [dim |-> "time", labels |-> times,
   mask |-> [i \in 1..Len(times) |-> times[i] > lo /\ times[i] < hi]]

\* The comparison with the deep end included.
DepthCondInclusive(depths, lo, hi) ==
  [dim |-> "depth", labels |-> depths,
   mask |-> [i \in 1..Len(depths) |-> depths[i] > lo /\ depths[i] <= hi]]

\* (cruise.depth > start_depth) & (cruise.depth < end_depth)
DepthCond(depths, lo, hi) ==
  [dim |-> "depth", labels |-> depths,
   mask |-> [i \in 1..Len(depths) |-> depths[i] > lo /\ depths[i] < hi]]

\* da.where(cond, drop=True) for cond = ct & cd (either may be NoCond): the
\* array and the condition are aligned on their labels, a cell where the
\* condition is false becomes NaN, and along each dimension of the condition
\* the labels at which the condition is false everywhere are dropped.
WhereDrop(da, ct, cd) ==
  LET ts0 == SelectSeq(da.time, LAMBDA t : Aligned(ct, t))
      ds0 == SelectSeq(da.depth, LAMBDA d : Aligned(cd, d))
      anyT == ct.dim = "none" \/ \E t \in Range(ts0) : CondTrue(ct, t)
      anyD == cd.dim = "none" \/ \E d \in Range(ds0) : CondTrue(cd, d)
      ts == IF ct.dim = "none" THEN ts0
            ELSE SelectSeq(ts0, LAMBDA t : CondTrue(ct, t) /\ anyD)
      ds == IF cd.dim = "none" THEN ds0
            ELSE SelectSeq(ds0, LAMBDA d : CondTrue(cd, d) /\ anyT)
      Value(d, t) == IF CondTrue(ct, t) /\ CondTrue(cd, d)
                       THEN At(da, d, t) ELSE NaN
  IN [frequency |-> da.frequency, depth |-> ds, time |-> ts,
      data |-> [i \in 1..Len(ds) |->
                  [j \in 1..Len(ts) |-> Value(ds[i], ts[j])]]]

Minus(x, y) == IF x = NaN \/ y = NaN THEN NaN ELSE x - y

\* A subtraction that pairs the cells of the operands by array position.
SubtractByPosition(a, b) ==
  LET nd == IF Len(a.depth) < Len(b.depth) THEN Len(a.depth) ELSE Len(b.depth)
      nt == IF Len(a.time) < Len(b.time) THEN Len(a.time) ELSE Len(b.time)
  IN [frequency |-> 0, depth |-> SubSeq(a.depth, 1, nd),
      time |-> SubSeq(a.time, 1, nt),
      data |-> [i \in 1..nd |-> [j \in 1..nt |->
                  Minus(a.data[i][j], b.data[i][j])]]]

\* a - b: the operands are aligned on the labels both have (inner join),
\* then subtracted cell by cell; the conflicting scalar frequency coordinate
\* is dropped.
Subtract(a, b) ==
  LET ds == SelectSeq(a.depth, LAMBDA d : HasLabel(b.depth, d))
      ts == SelectSeq(a.time, LAMBDA t : HasLabel(b.time, t))
      Value(d, t) == Minus(At(a, d, t), At(b, d, t))
  IN [frequency |-> 0, depth |-> ds, time |-> ts,
      data |-> [i \in 1..Len(ds) |->
                  [j \in 1..Len(ts) |-> Value(ds[i], ts[j])]]]

\* da.dropna(dim='depth'): drops every depth label with a NaN at some time.
DropnaDepth(da) ==
  LET ds == SelectSeq(da.depth,
                      LAMBDA d : \A t \in Range(da.time) : At(da, d, t) # NaN)
      Value(d, t) == At(da, d, t)
  IN [frequency |-> da.frequency, depth |-> ds, time |-> da.time,
      data |-> [i \in 1..Len(ds) |->
                  [j \in 1..Len(da.time) |-> Value(ds[i], da.time[j])]]]

Size(da) == Len(da.depth) * Len(da.time)

\* Cell 19: select_times.
SelectTimes ==
  /\ xpc = "c19"
  /\ select_times' = TimeCond(cruise.time, start_time, end_time)
  /\ xpc' = "c20"
  /\ UNCHANGED <<cruise, select_depths, Sv_38, Sv_38_subset, Sv_18, Sv_120,
                 Sv_200, Sv_120_subset, first_freq_array, second_freq_array,
                 Sv_select_diff>>
  /\ UNCHANGED <<first_freq, second_freq, title>>
  /\ UNCHANGED <<varsRun, varsInstall, varsGeo, varsRest>>

\* Cell 20: Sv_38 = cruise.sel(frequency=38000).where(select_times, drop=True).Sv
SelectSv38 ==
  /\ xpc = "c20"
  /\ Sv_38' = WhereDrop(Sel(cruise, 38000), select_times, NoCond)
  /\ xpc' = "c23"
  /\ UNCHANGED <<cruise, select_times, select_depths, Sv_38_subset, Sv_18,
                 Sv_120, Sv_200, Sv_120_subset, first_freq_array,
                 second_freq_array, Sv_select_diff>>
  /\ UNCHANGED <<first_freq, second_freq, title>>
  /\ UNCHANGED <<varsRun, varsInstall, varsGeo, varsRest>>

\* Cells 21-23: Sv_38 is displayed and np.nanmin / np.nanmax are printed.
InspectSv38 ==
  /\ xpc = "c23"
  /\ Size(Sv_38) > 0
  /\ xpc' = "c24"
  /\ UNCHANGED <<cruise, select_times, select_depths, Sv_38, Sv_38_subset,
                 Sv_18, Sv_120, Sv_200, Sv_120_subset, first_freq_array,
                 second_freq_array, Sv_select_diff>>
  /\ UNCHANGED <<first_freq, second_freq, title>>
  /\ UNCHANGED <<varsRun, varsInstall, varsGeo, varsRest>>

\* Cell 23 on a selection without any time sample: np.nanmin of a zero-size
\* array raises ValueError and the run stops.
InspectSv38Raises ==
  /\ xpc = "c23"
  /\ Size(Sv_38) = 0
  /\ xpc' = "raised"
  /\ UNCHANGED <<cruise, select_times, select_depths, Sv_38, Sv_38_subset,
                 Sv_18, Sv_120, Sv_200, Sv_120_subset, first_freq_array,
                 second_freq_array, Sv_select_diff>>
  /\ UNCHANGED <<first_freq, second_freq, title>>
  /\ UNCHANGED <<varsRun, varsInstall, varsGeo, varsRest>>

\* The array the plotting cell at xpc draws and the cell that follows it.
\* "r32" and "r33" are cells 32 and 33 run again after cell 31 was edited.
PlotCells == {"c24", "c27", "c30", "c33", "r33"}
Plotted ==
  CASE xpc = "c24" -> DropnaDepth(Sv_38)
    [] xpc = "c27" -> Sv_38_subset
    [] xpc = "c30" -> Sv_120_subset
    [] xpc \in {"c33", "r33"} -> Sv_select_diff
AfterPlot ==
  CASE xpc = "c24" -> "c25"
    [] xpc = "c27" -> "c28"
    [] xpc = "c30" -> "c31"
    [] xpc = "c33" -> "done"
    [] xpc = "r33" -> "rdone"

\* int(array.frequency.values/1000): the frequency in kHz, truncated.
KHz(array) == array.frequency \div 1000

\* A title that names the frequencies of the notebook as published.
DifferenceTitleFixed(first, second) ==
  [text |-> "Sv difference between", kHz |-> <<120, 38>>]

\* f"Sv difference between {first_freq} kHz - {second_freq} kHz"
DifferenceTitle(first, second) ==
  [text |-> "Sv difference between", kHz |-> <<first, second>>]

\* plt.title(...) of the plotting cell at xpc.
PlotTitle ==
  CASE xpc \in {"c24", "c27"} -> [text |-> "Sv", kHz |-> <<38>>]
    [] xpc = "c30" -> [text |-> "Sv", kHz |-> <<120>>]
    [] xpc \in {"c33", "r33"} -> DifferenceTitle(first_freq, second_freq)

\* Cells 24, 27, 30 and 33: an echogram is drawn.
Plot ==
  /\ xpc \in PlotCells
  /\ title' = PlotTitle
  /\ xpc' = AfterPlot
  /\ UNCHANGED <<cruise, select_times, select_depths, Sv_38, Sv_38_subset,
                 Sv_18, Sv_120, Sv_200, Sv_120_subset, first_freq_array,
                 second_freq_array, Sv_select_diff>>
  /\ UNCHANGED <<first_freq, second_freq>>
  /\ UNCHANGED <<varsRun, varsInstall, varsGeo, varsRest>>

\* Drawing an array without any cell may fail in the plotting library;
\* the run then stops at the plotting cell.
PlotRaises ==
  /\ xpc \in PlotCells
  /\ Size(Plotted) = 0
  /\ xpc' = "raised"
  /\ UNCHANGED <<cruise, select_times, select_depths, Sv_38, Sv_38_subset,
                 Sv_18, Sv_120, Sv_200, Sv_120_subset, first_freq_array,
                 second_freq_array, Sv_select_diff>>
  /\ UNCHANGED <<first_freq, second_freq, title>>
  /\ UNCHANGED <<varsRun, varsInstall, varsGeo, varsRest>>

\* Cell 25: select_depths.
SelectDepths ==
  /\ xpc = "c25"
  /\ select_depths' = DepthCond(cruise.depth, start_depth, end_depth)
  /\ xpc' = "c26"
  /\ UNCHANGED <<cruise, select_times, Sv_38, Sv_38_subset, Sv_18, Sv_120,
                 Sv_200, Sv_120_subset, first_freq_array, second_freq_array,
                 Sv_select_diff>>
  /\ UNCHANGED <<first_freq, second_freq, title>>
  /\ UNCHANGED <<varsRun, varsInstall, varsGeo, varsRest>>

\* Cell 26: Sv_38_subset = Sv_38.where(select_depths, drop=True)
SubsetSv38 ==
  /\ xpc = "c26"
  /\ Sv_38_subset' = WhereDrop(Sv_38, NoCond, select_depths)
  /\ xpc' = "c27"
  /\ UNCHANGED <<cruise, select_times, select_depths, Sv_38, Sv_18, Sv_120,
                 Sv_200, Sv_120_subset, first_freq_array, second_freq_array,
                 Sv_select_diff>>
  /\ UNCHANGED <<first_freq, second_freq, title>>
  /\ UNCHANGED <<varsRun, varsInstall, varsGeo, varsRest>>

\* Cell 28: Sv_18, Sv_120 and Sv_200, each selected with
\* .where(select_times & select_depths, drop=True).Sv
SelectOtherFrequencies ==
  /\ xpc = "c28"
  /\ Sv_18' = WhereDrop(Sel(cruise, 18000), select_times, select_depths)
  /\ Sv_120' = WhereDrop(Sel(cruise, 120000), select_times, select_depths)
  /\ Sv_200' = WhereDrop(Sel(cruise, 200000), select_times, select_depths)
  /\ xpc' = "c29"
  /\ UNCHANGED <<cruise, select_times, select_depths, Sv_38, Sv_38_subset,
                 Sv_120_subset, first_freq_array, second_freq_array,
                 Sv_select_diff>>
  /\ UNCHANGED <<first_freq, second_freq, title>>
  /\ UNCHANGED <<varsRun, varsInstall, varsGeo, varsRest>>

\* Cell 29: Sv_120_subset = Sv_120.where(select_depths, drop=True)
SubsetSv120 ==
  /\ xpc = "c29"
  /\ Sv_120_subset' = WhereDrop(Sv_120, NoCond, select_depths)
  /\ xpc' = "c30"
  /\ UNCHANGED <<cruise, select_times, select_depths, Sv_38, Sv_38_subset,
                 Sv_18, Sv_120, Sv_200, first_freq_array, second_freq_array,
                 Sv_select_diff>>
  /\ UNCHANGED <<first_freq, second_freq, title>>
  /\ UNCHANGED <<varsRun, varsInstall, varsGeo, varsRest>>

\* Cell 31: first_freq_array = Sv_120, first_freq = int(.../1000),
\* second_freq_array = Sv_38, second_freq = int(.../1000),
\* Sv_select_diff = first_freq_array - second_freq_array
FrequencyDifference ==
  /\ xpc = "c31"
  /\ first_freq_array' = Sv_120
  /\ first_freq' = KHz(Sv_120)
  /\ second_freq_array' = Sv_38
  /\ second_freq' = KHz(Sv_38)
  /\ Sv_select_diff' = Subtract(Sv_120, Sv_38)
  /\ xpc' = "c32"
  /\ UNCHANGED <<cruise, select_times, select_depths, Sv_38, Sv_38_subset,
                 Sv_18, Sv_120, Sv_200, Sv_120_subset, title>>
  /\ UNCHANGED <<varsRun, varsInstall, varsGeo, varsRest>>

\* Cell 31 edited as the notebook invites ("You can compare different
\* frequencies by editing the code below and re-running this step"), the
\* two assignments swapped: first_freq_array = Sv_38, second_freq_array =
\* Sv_120; the cell is run again after the run as written.
SwappedFrequencyDifference ==
  /\ xpc = "done"
  /\ first_freq_array' = Sv_38
  /\ first_freq' = KHz(Sv_38)
  /\ second_freq_array' = Sv_120
  /\ second_freq' = KHz(Sv_120)
  /\ Sv_select_diff' = Subtract(Sv_38, Sv_120)
  /\ xpc' = "r32"
  /\ UNCHANGED <<cruise, select_times, select_depths, Sv_38, Sv_38_subset,
                 Sv_18, Sv_120, Sv_200, Sv_120_subset, title>>
  /\ UNCHANGED <<varsRun, varsInstall, varsGeo, varsRest>>

\* Cell 32: Sv_select_diff = Sv_select_diff.dropna(dim='depth')
DropnaDifference ==
  /\ xpc \in {"c32", "r32"}
  /\ Sv_select_diff' = DropnaDepth(Sv_select_diff)
  /\ xpc' = IF xpc = "c32" THEN "c33" ELSE "r33"
  /\ UNCHANGED <<cruise, select_times, select_depths, Sv_38, Sv_38_subset,
                 Sv_18, Sv_120, Sv_200, Sv_120_subset, first_freq_array,
                 second_freq_array>>
  /\ UNCHANGED <<first_freq, second_freq, title>>
  /\ UNCHANGED <<varsRun, varsInstall, varsGeo, varsRest>>

NextXr ==
  \/ SelectTimes
  \/ SelectSv38
  \/ InspectSv38
  \/ InspectSv38Raises
  \/ Plot
  \/ PlotRaises
  \/ SelectDepths
  \/ SubsetSv38
  \/ SelectOtherFrequencies
  \/ SubsetSv120
  \/ FrequencyDifference
  \/ SwappedFrequencyDifference
  \/ DropnaDifference

SpecXr == InitXr /\ [][NextXr]_vars

\* Cells that have run once xpc has the given value.
AfterCell20 == xpc \notin {"idle", "c19", "c20"}
AfterCell26 == AfterCell20 /\ xpc \notin {"c23", "c24", "c25", "c26", "raised"}
AfterCell31 == xpc \in {"c32", "c33", "done"}

\* The value the store holds for frequency f at depth d and time t.
StoreAt(f, d, t) == At(Sel(cruise, f), d, t)

\* C2: after the frequency-differencing cell, every (depth, time) cell of
\* Sv_select_diff holds the 120 kHz Sv of first_freq_array at that depth and
\* time label minus the 38 kHz Sv of second_freq_array at the same labels
\* (NaN where either is NaN), and the labels of the difference are labels of
\* both operands: the operands are matched by label, not by position.
C2_DifferenceByLabel ==
  AfterCell31 =>
    /\ first_freq_array.frequency = 120000
    /\ second_freq_array.frequency = 38000
    /\ \A i \in 1..Len(Sv_select_diff.depth) :
         \A j \in 1..Len(Sv_select_diff.time) :
           LET d == Sv_select_diff.depth[i]
               t == Sv_select_diff.time[j]
           IN /\ HasLabel(first_freq_array.depth, d)
              /\ HasLabel(second_freq_array.depth, d)
              /\ HasLabel(first_freq_array.time, t)
              /\ HasLabel(second_freq_array.time, t)
              /\ Sv_select_diff.data[i][j] =
                   Minus(At(first_freq_array, d, t), At(second_freq_array, d, t))
              /\ Sv_select_diff.data[i][j] =
                   Minus(StoreAt(120000, d, t), StoreAt(38000, d, t))

\* A difference with a numeric cell whose operands sit at different array
\* positions: the depth label is first in Sv_120 and second in Sv_38.
C2_Witness ==
  /\ xpc = "c33"
  /\ \E i \in 1..Len(Sv_select_diff.depth) :
       \E j \in 1..Len(Sv_select_diff.time) :
         /\ Sv_select_diff.data[i][j] # NaN
         /\ IndexOf(first_freq_array.depth, Sv_select_diff.depth[i])
              # IndexOf(second_freq_array.depth, Sv_select_diff.depth[i])

\* C3: select_times is true for a time sample t exactly when
\* start_time < t < end_time, and the time coordinate of Sv_38 is exactly
\* those samples of cruise.time in their original order; samples outside the
\* hour or exactly at 19:00:00 or 20:00:00 are dropped, not masked.
C3_TimeSelection ==
  AfterCell20 =>
    /\ select_times.labels = cruise.time
    /\ \A i \in 1..Len(cruise.time) :
         select_times.mask[i] =
           (start_time < cruise.time[i] /\ cruise.time[i] < end_time)
    /\ Sv_38.time =
         SelectSeq(cruise.time, LAMBDA t : start_time < t /\ t < end_time)
    /\ start_time \notin Range(Sv_38.time)
    /\ end_time \notin Range(Sv_38.time)
    /\ Len(Sv_38.data) = Len(Sv_38.depth)
    /\ \A i \in 1..Len(Sv_38.depth) : Len(Sv_38.data[i]) = Len(Sv_38.time)

\* A store with a sample exactly at 19:00:00 or 20:00:00 and one inside the
\* hour: the first is dropped from Sv_38, the second kept.
C3_Witness ==
  /\ xpc = "c23"
  /\ (start_time \in Range(cruise.time) \/ end_time \in Range(cruise.time))
  /\ Len(Sv_38.time) = 1
  /\ Len(cruise.time) = 2

\* C4: Sv_38_subset retains a depth label d of Sv_38 if and only if
\* 0 < d < 500, in the original order (the 0 m label and every label at
\* 500 m or deeper are dropped); its time coordinate is that of Sv_38 and
\* its value at every retained cell is the value of Sv_38 there.
C4_DepthSelection ==
  AfterCell26 =>
    /\ Sv_38_subset.depth =
         SelectSeq(Sv_38.depth, LAMBDA d : 0 < d /\ d < 500)
    /\ 0 \notin Range(Sv_38_subset.depth)
    /\ \A d \in Range(Sv_38_subset.depth) : d < 500
    /\ Sv_38_subset.time = Sv_38.time
    /\ \A i \in 1..Len(Sv_38_subset.depth) :
         \A j \in 1..Len(Sv_38_subset.time) :
           Sv_38_subset.data[i][j] =
             At(Sv_38, Sv_38_subset.depth[i], Sv_38_subset.time[j])

\* A store with a label at exactly 500 m and one above it: the 0 m and the
\* 500 m labels are dropped, the label above 500 m is kept with its values.
C4_Witness ==
  /\ xpc = "c27"
  /\ 500 \in Range(Sv_38.depth)
  /\ Len(Sv_38_subset.depth) = 1
  /\ Len(Sv_38_subset.time) >= 1

\* A value that is a number above zero, a number below zero.
Positive(v) == v # NaN /\ v > 0
Negative(v) == v # NaN /\ v < 0

\* Both values are numbers and the first is the greater.
Exceeds(x, y) == x # NaN /\ y # NaN /\ x > y

\* The opposite of a value, NaN staying NaN.
Negated(v) == IF v = NaN THEN NaN ELSE 0 - v

\* What cells 31 and 32 as written produce from Sv_120 and Sv_38.
DiffAsWritten ==
  IF xpc = "r32" THEN Subtract(Sv_120, Sv_38)
  ELSE DropnaDepth(Subtract(Sv_120, Sv_38))

\* C15: in the run as written every value of Sv_select_diff is positive
\* exactly when the 120 kHz Sv of the store exceeds the 38 kHz Sv at that
\* depth and time, and negative exactly when the 38 kHz Sv exceeds the
\* 120 kHz Sv; the plot title names 120 kHz - 38 kHz.  After the step is run
\* again with the two assignments swapped, the difference has the same
\* labels, every value is the opposite of the value as written, and the
\* title names 38 kHz - 120 kHz: minuend first, subtrahend second.
C15_SignAndSwap ==
  /\ AfterCell31 =>
       /\ \A i \in 1..Len(Sv_select_diff.depth) :
            \A j \in 1..Len(Sv_select_diff.time) :
              LET d == Sv_select_diff.depth[i]
                  t == Sv_select_diff.time[j]
                  v == Sv_select_diff.data[i][j]
              IN /\ Positive(v) <=>
                      Exceeds(StoreAt(120000, d, t), StoreAt(38000, d, t))
                 /\ Negative(v) <=>
                      Exceeds(StoreAt(38000, d, t), StoreAt(120000, d, t))
       /\ first_freq = 120 /\ second_freq = 38
       /\ xpc = "done" =>
            title = [text |-> "Sv difference between", kHz |-> <<120, 38>>]
  /\ xpc \in {"r32", "r33", "rdone"} =>
       /\ Sv_select_diff.depth = DiffAsWritten.depth
       /\ Sv_select_diff.time = DiffAsWritten.time
       /\ \A i \in 1..Len(Sv_select_diff.depth) :
            \A j \in 1..Len(Sv_select_diff.time) :
              Sv_select_diff.data[i][j] = Negated(DiffAsWritten.data[i][j])
       /\ first_freq = 38 /\ second_freq = 120
       /\ first_freq_array = Sv_38 /\ second_freq_array = Sv_120
       /\ xpc = "rdone" =>
            title = [text |-> "Sv difference between", kHz |-> <<38, 120>>]

\* The swapped step has been run and plotted, and the difference has a
\* positive and a negative value.
C15_Witness ==
  /\ xpc = "rdone"
  /\ title.kHz = <<38, 120>>
  /\ \E i \in 1..Len(Sv_select_diff.depth) :
       \E j \in 1..Len(Sv_select_diff.time) :
         Positive(Sv_select_diff.data[i][j])
  /\ \E i \in 1..Len(Sv_select_diff.depth) :
       \E j \in 1..Len(Sv_select_diff.time) :
         Negative(Sv_select_diff.data[i][j])

\* A variable that has been assigned an array.
Assigned(v) == DOMAIN v # {}

\* C16 as stated: the cell that follows the explanation of time subsetting
\* selects the 18 kHz frequency for the selected time interval and stores
\* the result in Sv_18.
C16_Selects18IntoSv18 ==
  xpc = "c23" =>
    /\ Assigned(Sv_18)
    /\ Sv_18.frequency = 18000

(***************************************************************************)
(* SpecGeo: the GeoPandas steps of Echofish Chapter 3 on the navigation    *)
(* data of the store.  A frame is the sequence of its rows in index order; *)
(* latitudes and longitudes are whole degrees, NaN where the store has no  *)
(* position for the time sample.                                           *)
(***************************************************************************)

\* Largest number of time samples of the store.
MaxRows == 3

LatValues == {44, 46, NaN}
LonValues == {0 - 126, 0 - 124, NaN}

\* The navigation data xr.open_zarr can return: one latitude and one
\* longitude per time sample, time increasing.
NavStores ==
  UNION {[time : {[i \in 1..n |-> i]},
          latitude : [1..n -> LatValues],
          longitude : [1..n -> LonValues]] : n \in 1..MaxRows}

InitGeo ==
  /\ cruise \in NavStores
  /\ gpc = "c12"
  /\ gps_df = Unset /\ gps_gdf = Unset /\ linestring = Unset
  /\ lineSimplified = Unset
  /\ centroid = Unset /\ center_latitude = 0 /\ center_longitude = 0
  /\ m = Unset
  /\ xpc = "idle" /\ select_times = <<>> /\ select_depths = <<>>
  /\ Sv_38 = <<>> /\ Sv_38_subset = <<>> /\ Sv_18 = <<>> /\ Sv_120 = <<>>
  /\ Sv_200 = <<>> /\ Sv_120_subset = <<>> /\ first_freq_array = <<>>
  /\ second_freq_array = <<>> /\ Sv_select_diff = <<>>
  /\ first_freq = 0 /\ second_freq = 0 /\ title = <<>>
  /\ IdleRun /\ IdleInstall /\ IdleRest

\* An index label: a datetime64 time sample, or its string form.
Timestamp(x) == <<"datetime64", x>>

\* astype(str) of an index label.
Str(label) == <<"str", label[2]>>

\* pd.DataFrame({'latitude': ..., 'longitude': ..., 'time': ...})
\*   .set_index(['time'])
DataFrame(store) ==
  [i \in 1..Len(store.time) |->
     [time |-> Timestamp(store.time[i]), latitude |-> store.latitude[i],
      longitude |-> store.longitude[i]]]

\* gpd.points_from_xy(x, y): one point per row, also for NaN coordinates.
PointFromXY(x, y) == [x |-> x, y |-> y, missing |-> FALSE]

\* gpd.GeoDataFrame(df, geometry=gpd.points_from_xy(df.longitude, df.latitude))
GeoDataFrame(df) ==
  [i \in 1..Len(df) |->
     [time |-> df[i].time, latitude |-> df[i].latitude,
      longitude |-> df[i].longitude,
      geometry |-> PointFromXY(df[i].longitude, df[i].latitude)]]

\* A dropna that drops a row only when all of its values are missing.
DropnaHowAll(gdf) ==
  SelectSeq(gdf, LAMBDA r : ~(/\ r.latitude = NaN
                              /\ r.longitude = NaN
                              /\ r.geometry.missing))

\* gdf.dropna(): drops every row with a missing value in some column
\* (latitude, longitude or geometry); the index is not a column.
Dropna(gdf) ==
  SelectSeq(gdf, LAMBDA r : /\ r.latitude # NaN
                            /\ r.longitude # NaN
                            /\ ~r.geometry.missing)

\* The tolerance of simplify, 0.01 degrees, in hundredths of a degree.
tolerance == 1
ToleranceScale == 100

\* The squared distance from point p to the segment from a to b, as the
\* fraction num / den with den > 0: the distance to the nearer end when the
\* foot of the perpendicular falls outside the segment (or a = b), the
\* perpendicular distance otherwise.
SqDistance(p, a, b) ==
  LET len2 == (b[1] - a[1]) * (b[1] - a[1]) + (b[2] - a[2]) * (b[2] - a[2])
      dot == (p[1] - a[1]) * (b[1] - a[1]) + (p[2] - a[2]) * (b[2] - a[2])
      cross == (b[1] - a[1]) * (p[2] - a[2]) - (b[2] - a[2]) * (p[1] - a[1])
      toA == (p[1] - a[1]) * (p[1] - a[1]) + (p[2] - a[2]) * (p[2] - a[2])
      toB == (p[1] - b[1]) * (p[1] - b[1]) + (p[2] - b[2]) * (p[2] - b[2])
  IN IF len2 = 0 \/ dot <= 0 THEN [num |-> toA, den |-> 1]
     ELSE IF dot >= len2 THEN [num |-> toB, den |-> 1]
     ELSE [num |-> cross * cross, den |-> len2]

\* d1 < d2 for two squared distances.
Nearer(d1, d2) == d1.num * d2.den < d2.num * d1.den

\* The distance is greater than the tolerance.
BeyondTolerance(d) ==
  d.num * ToleranceScale * ToleranceScale > tolerance * tolerance * d.den

\* Ramer-Douglas-Peucker on the section of pts from vertex i to vertex j:
\* the inner vertices that are kept.  The vertex farthest from the segment
\* i-j splits the section when it is farther than the tolerance; otherwise
\* the whole section is flattened to the segment.
RECURSIVE KeptBetween(_, _, _)
KeptBetween(pts, i, j) ==
  IF j <= i + 1 THEN {}
  ELSE LET d(k) == SqDistance(pts[k], pts[i], pts[j])
           far == CHOOSE k \in (i + 1)..(j - 1) :
                    \A l \in (i + 1)..(j - 1) :
                      /\ ~Nearer(d(k), d(l))
                      /\ l < k => Nearer(d(l), d(k))
       IN IF BeyondTolerance(d(far))
          THEN KeptBetween(pts, i, far) \cup {far}
                 \cup KeptBetween(pts, far, j)
          ELSE {}

\* A simplification that loses the end of the line.
DouglasPeuckerOpen(pts) == {1} \cup KeptBetween(pts, 1, Len(pts))

\* The vertices Ramer-Douglas-Peucker keeps: both ends of the line and the
\* inner vertices no flattening within the tolerance can drop.
DouglasPeucker(pts) == {1, Len(pts)} \cup KeptBetween(pts, 1, Len(pts))

\* simplify(tolerance, preserve_topology=True): the vertices kept are those
\* of Ramer-Douglas-Peucker, and possibly further ones where flattening a
\* section would make the line cross itself.
SimplifyKeeps(pts) ==
  {keep \in SUBSET (1..Len(pts)) : DouglasPeucker(pts) \subseteq keep}

\* The coordinates of pts at the vertices of keep, in the order of pts.
CoordsAt(pts, keep) ==
  LET at == SelectSeq([i \in 1..Len(pts) |-> i], LAMBDA i : i \in keep)
  IN [k \in 1..Len(at) |-> pts[at[k]]]

\* Cell 12: gps_df.
MakeGpsDf ==
  /\ gpc = "c12"
  /\ gps_df' = DataFrame(cruise)
  /\ gpc' = "c13"
  /\ UNCHANGED <<lineSimplified, gps_gdf, linestring, centroid, center_latitude,
                 center_longitude, m>>
  /\ UNCHANGED <<varsRun, varsInstall, varsXr, varsRest>>

\* Cell 13: gps_gdf = gpd.GeoDataFrame(gps_df, geometry=..., crs=...).dropna()
MakeGpsGdf ==
  /\ gpc = "c13"
  /\ gps_gdf' = Dropna(GeoDataFrame(gps_df))
  /\ gpc' = "c16"
  /\ UNCHANGED <<lineSimplified, gps_df, linestring, centroid, center_latitude,
                 center_longitude, m>>
  /\ UNCHANGED <<varsRun, varsInstall, varsXr, varsRest>>

\* Cell 16: gps_gdf.index = gps_gdf.index.astype(str)
IndexToStr ==
  /\ gpc = "c16"
  /\ gps_gdf' = [i \in 1..Len(gps_gdf) |->
                   [gps_gdf[i] EXCEPT !.time = Str(gps_gdf[i].time)]]
  /\ gpc' = "c20"
  /\ UNCHANGED <<lineSimplified, gps_df, linestring, centroid, center_latitude,
                 center_longitude, m>>
  /\ UNCHANGED <<varsRun, varsInstall, varsXr, varsRest>>

\* Cells 20-23: linestring = geom.LineString(zip(latitude, longitude)),
\* then len(linestring.coords) and linestring.coords[0].
MakeLinestring ==
  /\ gpc = "c20"
  /\ Len(gps_gdf) >= 2
  /\ linestring' = [i \in 1..Len(gps_gdf) |->
                      <<gps_gdf[i].latitude, gps_gdf[i].longitude>>]
  /\ gpc' = "c24"
  /\ UNCHANGED <<lineSimplified, gps_df, gps_gdf, centroid, center_latitude,
                 center_longitude, m>>
  /\ UNCHANGED <<varsRun, varsInstall, varsXr, varsRest>>

\* A LineString cannot be built from a single point, and coords[0] of an
\* empty one raises IndexError: with fewer than two rows the run stops here.
MakeLinestringRaises ==
  /\ gpc = "c20"
  /\ Len(gps_gdf) < 2
  /\ gpc' = "raised"
  /\ UNCHANGED <<lineSimplified, gps_df, gps_gdf, linestring, centroid, center_latitude,
                 center_longitude, m>>
  /\ UNCHANGED <<varsRun, varsInstall, varsXr, varsRest>>

\* Cell 24: lineSimplified = linestring.simplify(tolerance=0.01,
\* preserve_topology=True), then the two coordinate counts are printed.
Simplify ==
  /\ gpc = "c24"
  /\ \E keep \in SimplifyKeeps(linestring) :
       lineSimplified' = CoordsAt(linestring, keep)
  /\ gpc' = "c28"
  /\ UNCHANGED <<gps_df, gps_gdf, linestring, centroid, center_latitude,
                 center_longitude, m>>
  /\ UNCHANGED <<varsRun, varsInstall, varsXr, varsRest>>

\* Cell 28: centroid = gps_gdf.geometry.centroid, a series holding for each
\* row the centroid of that row's geometry; the centroid of a point is the
\* point.
MakeCentroid ==
  /\ gpc = "c28"
  /\ centroid' = [i \in 1..Len(gps_gdf) |-> gps_gdf[i].geometry]
  /\ gpc' = "c29"
  /\ UNCHANGED <<lineSimplified, gps_df, gps_gdf, linestring, center_latitude,
                 center_longitude, m>>
  /\ UNCHANGED <<varsRun, varsInstall, varsXr, varsRest>>

\* Cell 29: center_latitude = centroid.y.iloc[0],
\*          center_longitude = centroid.x.iloc[0]
ExtractCenter ==
  /\ gpc = "c29"
  /\ Len(centroid) >= 1
  /\ center_latitude' = centroid[1].y
  /\ center_longitude' = centroid[1].x
  /\ gpc' = "c30"
  /\ UNCHANGED <<lineSimplified, gps_df, gps_gdf, linestring, centroid, m>>
  /\ UNCHANGED <<varsRun, varsInstall, varsXr, varsRest>>

\* Cells 30-31: m = folium.Map(location=[center_latitude, center_longitude])
ShowMap ==
  /\ gpc = "c30"
  /\ m' = <<center_latitude, center_longitude>>
  /\ gpc' = "done"
  /\ UNCHANGED <<lineSimplified, gps_df, gps_gdf, linestring, centroid, center_latitude,
                 center_longitude>>
  /\ UNCHANGED <<varsRun, varsInstall, varsXr, varsRest>>

NextGeo ==
  \/ MakeGpsDf
  \/ MakeGpsGdf
  \/ IndexToStr
  \/ MakeLinestring
  \/ MakeLinestringRaises
  \/ Simplify
  \/ MakeCentroid
  \/ ExtractCenter
  \/ ShowMap

SpecGeo == InitGeo /\ [][NextGeo]_vars

RECURSIVE SumLatitude(_)
SumLatitude(s) ==
  IF s = <<>> THEN 0 ELSE Head(s).latitude + SumLatitude(Tail(s))

RECURSIVE SumLongitude(_)
SumLongitude(s) ==
  IF s = <<>> THEN 0 ELSE Head(s).longitude + SumLongitude(Tail(s))

Complete(r) == r.latitude # NaN /\ r.longitude # NaN

\* C9: gps_gdf holds exactly the rows of gps_df whose latitude and longitude
\* are both present, in the original order and (until the index is turned
\* into strings) indexed by time; no row of gps_gdf has a missing latitude,
\* longitude or geometry, and every row carries the point (longitude,
\* latitude).
C9_GdfIsCompleteRows ==
  gpc \notin {"idle", "c12", "c13"} =>
    LET kept == SelectSeq(gps_df, Complete)
    IN /\ Len(gps_gdf) = Len(kept)
       /\ \A i \in 1..Len(gps_gdf) :
            /\ gps_gdf[i].latitude = kept[i].latitude
            /\ gps_gdf[i].longitude = kept[i].longitude
            /\ gps_gdf[i].time \in {kept[i].time, Str(kept[i].time)}
            /\ gpc = "c16" => gps_gdf[i].time = kept[i].time
            /\ gps_gdf[i].latitude # NaN
            /\ gps_gdf[i].longitude # NaN
            /\ ~gps_gdf[i].geometry.missing
            /\ gps_gdf[i].geometry.x = kept[i].longitude
            /\ gps_gdf[i].geometry.y = kept[i].latitude

\* A frame with a row missing only its latitude, a row missing only its
\* longitude and a complete row: gps_gdf keeps the complete row alone.
C9_Witness ==
  /\ gpc = "c16"
  /\ Len(gps_df) = 3
  /\ Len(gps_gdf) = 1
  /\ \E i \in 1..3 : gps_df[i].latitude = NaN /\ gps_df[i].longitude # NaN
  /\ \E i \in 1..3 : gps_df[i].latitude # NaN /\ gps_df[i].longitude = NaN

\* C10 as stated: the map shown at the end is centred on the centroid of all
\* GPS points of gps_gdf taken together, the mean of their latitudes and the
\* mean of their longitudes.
C10_MapCentredOnCentroid ==
  gpc = "done" =>
    /\ m[1] * Len(gps_gdf) = SumLatitude(gps_gdf)
    /\ m[2] * Len(gps_gdf) = SumLongitude(gps_gdf)

(***************************************************************************)
(* SpecCh1: the data cells of Echofish Chapter 1, from the download loop   *)
(* to ep.combine_echodata, over repeated top-to-bottom runs in one         *)
(* session.  A path is the sequence of its components; the local directory *)
(* and the echopype temp_output directory outlive a run.                   *)
(***************************************************************************)

\* Largest number of top-to-bottom runs.
MaxRuns == 2

bucket_name == "noaa-wcsd-pds"
ship_name == "Bell_M._Shimada"
cruise_name == "SH1507"
sensor_name == "EK60"
file_names ==
  << <<"SaKe2015-D20150719-T193412.raw">>,
     <<"SaKe2015-D20150719-T193443.raw">>,
     <<"SaKe2015-D20150719-T194042.raw">>,
     <<"SaKe2015-D20150719-T194642.raw">>,
     <<"SaKe2015-D20150719-T195242.raw">>,
     <<"SaKe2015-D20150719-T195842.raw">> >>

\* A key that leaves the sensor out.
KeyWithoutSensor(ship, cruiseName, sensor, file_name) ==
  <<"data", "raw", ship, cruiseName>> \o file_name

\* f'data/raw/{ship_name}/{cruise_name}/{sensor_name}/{file_name}'
Key(ship, cruiseName, sensor, file_name) ==
  <<"data", "raw", ship, cruiseName, sensor>> \o file_name

\* os.path.basename(path): the last component of the path.
Basename(path) == <<path[Len(path)]>>

\* A removal that does not find the store.
RmRfElsewhere(st) == st

\* rm -rf of the path: nothing is left at it, whatever was there.
RmRf(st) == "absent"

InitCh1 ==
  /\ run = 1 /\ cell = "c5" /\ cstatus = "running" /\ fileIdx = 1
  /\ downloads = <<>>
  /\ localFiles \in {{}, Range(file_names)}
  /\ echodata = <<>>
  /\ zarr \in {"absent", "stale"}
  /\ rmFound = "none" /\ combineFound = "none"
  /\ IdleRun /\ IdleInstall /\ IdleXr /\ IdleGeo /\ IdleRead /\ IdleName

\* The s3.download_file call of the current iteration.
DownloadCall(ok) ==
  [Bucket |-> bucket_name,
   Key |-> Key(ship_name, cruise_name, sensor_name, file_names[fileIdx]),
   Filename |-> Basename(file_names[fileIdx]),
   ok |-> ok]

\* Cell 5, one iteration: the file is downloaded and its name printed.
Download ==
  /\ cstatus = "running" /\ cell = "c5"
  /\ fileIdx <= Len(file_names)
  /\ downloads' = Append(downloads, DownloadCall(TRUE))
  /\ localFiles' = localFiles \cup {DownloadCall(TRUE).Filename}
  /\ fileIdx' = fileIdx + 1
  /\ UNCHANGED <<run, cell, cstatus, echodata, zarr, rmFound, combineFound>>
  /\ UNCHANGED <<varsRun, varsInstall, varsXr, varsGeo, varsRead, varsName>>

\* A loop that notes the failed download and goes on to the next file.
DownloadRaisesSkipped ==
  /\ cstatus = "running" /\ cell = "c5"
  /\ fileIdx <= Len(file_names)
  /\ downloads' = Append(downloads, DownloadCall(FALSE))
  /\ fileIdx' = fileIdx + 1
  /\ UNCHANGED <<run, cell, cstatus, localFiles, echodata, zarr, rmFound,
                 combineFound>>
  /\ UNCHANGED <<varsRun, varsInstall, varsXr, varsGeo, varsRead, varsName>>

\* Cell 5, one iteration: s3.download_file raises (no such key, no
\* network); nothing catches it and the cell stops.
DownloadRaises ==
  /\ cstatus = "running" /\ cell = "c5"
  /\ fileIdx <= Len(file_names)
  /\ downloads' = Append(downloads, DownloadCall(FALSE))
  /\ cstatus' = "raised"
  /\ UNCHANGED <<run, cell, fileIdx, localFiles, echodata, zarr, rmFound,
                 combineFound>>
  /\ UNCHANGED <<varsRun, varsInstall, varsXr, varsGeo, varsRead, varsName>>

\* Cell 5 ends with the list; cell 6 lists the directory; cell 7 starts
\* with echodata = [].
DownloadLoopEnds ==
  /\ cstatus = "running" /\ cell = "c5"
  /\ fileIdx > Len(file_names)
  /\ cell' = "c7"
  /\ fileIdx' = 1
  /\ echodata' = <<>>
  /\ UNCHANGED <<run, cstatus, downloads, localFiles, zarr, rmFound,
                 combineFound>>
  /\ UNCHANGED <<varsRun, varsInstall, varsXr, varsGeo, varsRead, varsName>>

\* Cell 7, one iteration: ep.open_raw(raw_file=file_names[i], ...).
OpenRaw ==
  /\ cstatus = "running" /\ cell = "c7"
  /\ fileIdx <= Len(file_names)
  /\ file_names[fileIdx] \in localFiles
  /\ echodata' = Append(echodata, file_names[fileIdx])
  /\ fileIdx' = fileIdx + 1
  /\ UNCHANGED <<run, cell, cstatus, downloads, localFiles, zarr, rmFound,
                 combineFound>>
  /\ UNCHANGED <<varsRun, varsInstall, varsXr, varsGeo, varsRead, varsName>>

\* Cell 7, one iteration: ep.open_raw raises (file missing or unreadable).
OpenRawRaises ==
  /\ cstatus = "running" /\ cell = "c7"
  /\ fileIdx <= Len(file_names)
  /\ cstatus' = "raised"
  /\ UNCHANGED <<run, cell, fileIdx, downloads, localFiles, echodata, zarr,
                 rmFound, combineFound>>
  /\ UNCHANGED <<varsRun, varsInstall, varsXr, varsGeo, varsRead, varsName>>

\* Cell 7 ends; cells 8 and 9 show echodata[0].
OpenLoopEnds ==
  /\ cstatus = "running" /\ cell = "c7"
  /\ fileIdx > Len(file_names)
  /\ cell' = "c10"
  /\ UNCHANGED <<run, cstatus, fileIdx, downloads, localFiles, echodata,
                 zarr, rmFound, combineFound>>
  /\ UNCHANGED <<varsRun, varsInstall, varsXr, varsGeo, varsRead, varsName>>

\* Cell 10: !rm -rf /root/.echopype/temp_output/combined_echodata.zarr
RemoveZarr ==
  /\ cstatus = "running" /\ cell = "c10"
  /\ rmFound' = zarr
  /\ zarr' = RmRf(zarr)
  /\ cell' = "c11"
  /\ UNCHANGED <<run, cstatus, fileIdx, downloads, localFiles, echodata,
                 combineFound>>
  /\ UNCHANGED <<varsRun, varsInstall, varsXr, varsGeo, varsRead, varsName>>

\* Cell 11: combined_echodata = ep.combine_echodata(echodata), which writes
\* combined_echodata.zarr under temp_output.
Combine ==
  /\ cstatus = "running" /\ cell = "c11"
  /\ combineFound' = zarr
  /\ zarr' = "fresh"
  /\ cstatus' = "done"
  /\ UNCHANGED <<run, cell, fileIdx, downloads, localFiles, echodata,
                 rmFound>>
  /\ UNCHANGED <<varsRun, varsInstall, varsXr, varsGeo, varsRead, varsName>>

\* Cell 11: ep.combine_echodata raises, the store written in part or not
\* at all.
CombineRaises ==
  /\ cstatus = "running" /\ cell = "c11"
  /\ combineFound' = zarr
  /\ zarr' \in {zarr, "fresh"}
  /\ cstatus' = "raised"
  /\ UNCHANGED <<run, cell, fileIdx, downloads, localFiles, echodata,
                 rmFound>>
  /\ UNCHANGED <<varsRun, varsInstall, varsXr, varsGeo, varsRead, varsName>>

\* The user runs the notebook again from the top: what the earlier run
\* left on disk is still there.
RunAgain ==
  /\ cstatus \in {"done", "raised"}
  /\ run < MaxRuns
  /\ run' = run + 1
  /\ cell' = "c5" /\ cstatus' = "running" /\ fileIdx' = 1
  /\ downloads' = <<>>
  /\ echodata' = <<>>
  /\ zarr' = IF zarr = "fresh" THEN "stale" ELSE zarr
  /\ rmFound' = "none" /\ combineFound' = "none"
  /\ UNCHANGED localFiles
  /\ UNCHANGED <<varsRun, varsInstall, varsXr, varsGeo, varsRead, varsName>>

NextCh1 ==
  \/ Download
  \/ DownloadRaises
  \/ DownloadLoopEnds
  \/ OpenRaw
  \/ OpenRawRaises
  \/ OpenLoopEnds
  \/ RemoveZarr
  \/ Combine
  \/ CombineRaises
  \/ RunAgain

SpecCh1 == InitCh1 /\ [][NextCh1]_vars

\* C12: when the download loop has completed, the calls made are one per
\* name of file_names, in list order, each from bucket noaa-wcsd-pds with
\* Key data/raw/Bell_M._Shimada/SH1507/EK60/<file_name> and written to the
\* local file named <file_name>, which is then present.
C12_DownloadsInOrder ==
  cell \in {"c7", "c10", "c11"} =>
    /\ Len(downloads) = 6
    /\ \A i \in 1..6 :
         /\ downloads[i].ok
         /\ downloads[i].Bucket = "noaa-wcsd-pds"
         /\ downloads[i].Key =
              <<"data", "raw", "Bell_M._Shimada", "SH1507", "EK60",
                file_names[i][1]>>
         /\ downloads[i].Filename = file_names[i]
         /\ file_names[i] \in localFiles

\* The loop has just completed in a directory that held none of the files.
C12_Witness ==
  /\ cell = "c7" /\ fileIdx = 1 /\ cstatus = "running"
  /\ run = 1
  /\ Len(downloads) = 6
  /\ localFiles = Range(file_names)

\* C13: in every run the removal has executed before combine_echodata
\* starts, and combine_echodata never finds a combined_echodata.zarr at
\* the path, neither one left by an earlier run nor any other.
C13_RemovedBeforeCombine ==
  /\ cell = "c11" /\ cstatus = "running" => rmFound # "none" /\ zarr = "absent"
  /\ combineFound # "none" => rmFound # "none" /\ combineFound = "absent"

\* A repeated run: the removal found the store the first run wrote, and
\* combine_echodata then started on an empty path.
C13_Witness ==
  /\ run = 2
  /\ rmFound = "stale"
  /\ combineFound = "absent"
  /\ cstatus = "done"

(***************************************************************************)
(* SpecRead: TC PRIMED Chapter 1a from requests.get to DS.close().  The    *)
(* server answers the GET with a status code and a body; the body of a     *)
(* successful answer is the NetCDF file, whose latitude variable has a     *)
(* scan and a pixel dimension.                                             *)
(***************************************************************************)

\* Scan lengths, the largest pixel length and the number of value patterns
\* of the latitude variable.
MinScan == 8
MaxScan == 12
MaxPixel == 2
MaxLatSeed == 3

\* The latitude at scan i and pixel j (both from 0) of pattern seed: no two
\* entries of a variable are equal.
LatValue(seed, P, i, j) == seed + i * P + j

\* passive_microwave/S1/latitude of shape (S, P), as the list of its rows.
Latitude(seed, S, P) ==
  [i \in 1..S |-> [j \in 1..P |-> LatValue(seed, P, i - 1, j - 1)]]

\* The answers the server can give to the GET: the file, or an error
\* document in place of it.
Responses ==
  {[status_code |-> 200,
    content |-> [kind |-> "netcdf", latitude |-> Latitude(seed, S, P)]] :
     seed \in 1..MaxLatSeed, S \in MinScan..MaxScan, P \in 1..MaxPixel}
  \cup {[status_code |-> c, content |-> [kind |-> "xml", latitude |-> <<>>]] :
          c \in {403, 404}}

InitRead ==
  /\ server \in Responses
  /\ rcell = "get" /\ rstatus = "running"
  /\ url_response = Unset /\ DS = Unset /\ dsCalls = <<>>
  /\ S1_full_latitude = Unset /\ S1_subset_latitude = Unset
  /\ IdleRun /\ IdleInstall /\ IdleXr /\ IdleGeo /\ IdleCh1 /\ IdleName

\* A text is the sequence of its characters; + on texts is concatenation.

\* The folder of the storm after AL062018.
NODD_URL_NextStorm ==
  <<"h", "t", "t", "p", "s", ":", "/", "/", "n", "o", "a", "a", "-", "n",
    "e", "s", "d", "i", "s", "-", "t", "c", "p", "r", "i", "m", "e", "d",
    "-", "p", "d", "s", ".", "s", "3", ".", "a", "m", "a", "z", "o", "n",
    "a", "w", "s", ".", "c", "o", "m", "/", "v", "0", "1", "r", "0", "1",
    "/", "f", "i", "n", "a", "l", "/", "2", "0", "1", "8", "/", "A", "L",
    "/", "0", "7", "/">>

\* NODD_URL = "https://noaa-nesdis-tcprimed-pds.s3.amazonaws.com/v01r01/
\* final/2018/AL/06/"
NODD_URL ==
  <<"h", "t", "t", "p", "s", ":", "/", "/", "n", "o", "a", "a", "-", "n",
    "e", "s", "d", "i", "s", "-", "t", "c", "p", "r", "i", "m", "e", "d",
    "-", "p", "d", "s", ".", "s", "3", ".", "a", "m", "a", "z", "o", "n",
    "a", "w", "s", ".", "c", "o", "m", "/", "v", "0", "1", "r", "0", "1",
    "/", "f", "i", "n", "a", "l", "/", "2", "0", "1", "8", "/", "A", "L",
    "/", "0", "6", "/">>

\* FILE_NAME =
\* "TCPRIMED_v01r01-final_AL062018_GMI_GPM_025677_20180905051440.nc"
FILE_NAME ==
  <<"T", "C", "P", "R", "I", "M", "E", "D", "_", "v", "0", "1", "r", "0",
    "1", "-", "f", "i", "n", "a", "l", "_", "A", "L", "0", "6", "2", "0",
    "1", "8", "_", "G", "M", "I", "_", "G", "P", "M", "_", "0", "2", "5",
    "6", "7", "7", "_", "2", "0", "1", "8", "0", "9", "0", "5", "0", "5",
    "1", "4", "4", "0", ".", "n", "c">>

\* url_response = requests.get(NODD_URL + FILE_NAME): the answer of the
\* server is returned whatever its status code, with the URL it answers.
Get ==
  /\ rstatus = "running" /\ rcell = "get"
  /\ url_response' = [status_code |-> server.status_code,
                      content |-> server.content,
                      url |-> NODD_URL \o FILE_NAME]
  /\ rcell' = "dataset"
  /\ UNCHANGED <<server, rstatus, DS, dsCalls, S1_full_latitude,
                 S1_subset_latitude>>
  /\ UNCHANGED <<varsRun, varsInstall, varsXr, varsGeo, varsCh1, varsName>>

\* requests.get raises: no answer was received (ConnectionError, Timeout).
GetRaises ==
  /\ rstatus = "running" /\ rcell = "get"
  /\ rstatus' = "raised"
  /\ UNCHANGED <<server, rcell, url_response, DS, dsCalls, S1_full_latitude,
                 S1_subset_latitude>>
  /\ UNCHANGED <<varsRun, varsInstall, varsXr, varsGeo, varsCh1, varsName>>

\* A memory argument that is the body only for status 200.
MemoryIfOk(response) ==
  IF response.status_code = 200 THEN response.content
  ELSE [kind |-> "empty", latitude |-> <<>>]

\* memory=url_response.content
Memory(response) == response.content

\* DS = Dataset(FILE_NAME, memory=url_response.content) on the bytes of a
\* NetCDF file.
OpenDataset ==
  /\ rstatus = "running" /\ rcell = "dataset"
  /\ dsCalls' = Append(dsCalls, Memory(url_response))
  /\ Memory(url_response).kind = "netcdf"
  /\ DS' = [isopen |-> TRUE, latitude |-> Memory(url_response).latitude]
  /\ rcell' = "full"
  /\ UNCHANGED <<server, rstatus, url_response, S1_full_latitude,
                 S1_subset_latitude>>
  /\ UNCHANGED <<varsRun, varsInstall, varsXr, varsGeo, varsCh1, varsName>>

\* Dataset(...) on bytes that are not a NetCDF file raises OSError.
OpenDatasetRaises ==
  /\ rstatus = "running" /\ rcell = "dataset"
  /\ dsCalls' = Append(dsCalls, Memory(url_response))
  /\ Memory(url_response).kind # "netcdf"
  /\ rstatus' = "raised"
  /\ UNCHANGED <<server, rcell, url_response, DS, S1_full_latitude,
                 S1_subset_latitude>>
  /\ UNCHANGED <<varsRun, varsInstall, varsXr, varsGeo, varsCh1, varsName>>

\* (rows, columns) of an array.
Shape(array) == <<Len(array), IF Len(array) = 0 THEN 0 ELSE Len(array[1])>>

\* An arange that starts one entry late.
ArangeFromNext(first, stop, step) ==
  [k \in 1..((stop - first + step - 1) \div step) |-> first + k * step]

\* np.arange(first, stop, step): first, first + step, ... below stop.
Arange(first, stop, step) ==
  [k \in 1..((stop - first + step - 1) \div step) |->
     first + (k - 1) * step]

\* variable[:]: the whole array.
All(array) == array

\* variable[rows, :]: the rows at the given indices (from 0), every column.
Rows(array, rows) == [k \in 1..Len(rows) |-> array[rows[k] + 1]]

\* S1_full_latitude = DS["passive_microwave/S1/latitude"][:] and its shape
\* printed.
ReadFull ==
  /\ rstatus = "running" /\ rcell = "full"
  /\ S1_full_latitude' = All(DS.latitude)
  /\ rcell' = "subset"
  /\ UNCHANGED <<server, rstatus, url_response, DS, dsCalls,
                 S1_subset_latitude>>
  /\ UNCHANGED <<varsRun, varsInstall, varsXr, varsGeo, varsCh1, varsName>>

\* S1_subset_latitude = DS[...][np.arange(0,10,1),:] and its shape printed.
ReadSubset ==
  /\ rstatus = "running" /\ rcell = "subset"
  /\ \A k \in 1..Len(Arange(0, 10, 1)) :
       Arange(0, 10, 1)[k] < Len(DS.latitude)
  /\ S1_subset_latitude' = Rows(DS.latitude, Arange(0, 10, 1))
  /\ rcell' = "close"
  /\ UNCHANGED <<server, rstatus, url_response, DS, dsCalls,
                 S1_full_latitude>>
  /\ UNCHANGED <<varsRun, varsInstall, varsXr, varsGeo, varsCh1, varsName>>

\* An index beyond the scan dimension raises IndexError.
ReadSubsetRaises ==
  /\ rstatus = "running" /\ rcell = "subset"
  /\ \E k \in 1..Len(Arange(0, 10, 1)) :
       Arange(0, 10, 1)[k] >= Len(DS.latitude)
  /\ rstatus' = "raised"
  /\ UNCHANGED <<server, rcell, url_response, DS, dsCalls, S1_full_latitude,
                 S1_subset_latitude>>
  /\ UNCHANGED <<varsRun, varsInstall, varsXr, varsGeo, varsCh1, varsName>>

\* DS.close()
Close ==
  /\ rstatus = "running" /\ rcell = "close"
  /\ DS' = [DS EXCEPT !.isopen = FALSE]
  /\ rstatus' = "done"
  /\ UNCHANGED <<server, rcell, url_response, dsCalls, S1_full_latitude,
                 S1_subset_latitude>>
  /\ UNCHANGED <<varsRun, varsInstall, varsXr, varsGeo, varsCh1, varsName>>

NextRead ==
  \/ Get
  \/ GetRaises
  \/ OpenDataset
  \/ OpenDatasetRaises
  \/ ReadFull
  \/ ReadSubset
  \/ ReadSubsetRaises
  \/ Close

SpecRead == InitRead /\ [][NextRead]_vars

\* C17: for a latitude variable of shape (S, P) with S >= 10, once both
\* arrays are read S1_full_latitude is the whole variable, of shape (S, P),
\* and S1_subset_latitude has shape (10, P) and equals rows 0..9 of the full
\* array at every pixel.
C17_SubsetIsFirstTenScans ==
  (rcell = "close" /\ Len(server.content.latitude) >= 10) =>
    LET S == Len(server.content.latitude)
        P == Len(server.content.latitude[1])
    IN /\ Shape(S1_full_latitude) = <<S, P>>
       /\ S1_full_latitude = server.content.latitude
       /\ Shape(S1_subset_latitude) = <<10, P>>
       /\ \A i \in 0..9 : \A j \in 0..(P - 1) :
            S1_subset_latitude[i + 1][j + 1] = S1_full_latitude[i + 1][j + 1]

\* Both arrays have been read from a variable with more than ten scans and
\* more than one pixel.
C17_Witness ==
  /\ rcell = "close"
  /\ Shape(S1_full_latitude) = <<12, 2>>
  /\ Shape(S1_subset_latitude) = <<10, 2>>

\* C20 as stated: Dataset is given the body of the response only when the
\* GET succeeded; the body of an unsuccessful response never reaches it.
C20_BodyOnlyAfterSuccess ==
  dsCalls # <<>> => url_response.status_code = 200

\* C20, amended: once the Dataset statement has run, Dataset has been given
\* the body of the response requests.get returned, whatever its status
\* code; on the body of an unsuccessful response it is Dataset that raises,
\* and DS is not opened.
C20_BodyHandedWhateverStatus ==
  /\ (rstatus # "idle" /\ (rcell \notin {"get", "dataset"}
                             \/ (rcell = "dataset" /\ rstatus = "raised"))) =>
       dsCalls = <<url_response.content>>
  /\ (rstatus # "idle" /\ rcell = "dataset" /\ rstatus = "running") =>
       dsCalls = <<>>
  /\ (dsCalls # <<>> /\ url_response.status_code # 200) =>
       rstatus = "raised" /\ rcell = "dataset" /\ DS = Unset

\* The server answered 404 and the error document was handed to Dataset.
C20_Witness ==
  /\ rcell = "dataset" /\ rstatus = "raised"
  /\ url_response.status_code = 404
  /\ dsCalls = <<url_response.content>>

(***************************************************************************)
(* SpecName: the start time a raw file name encodes.  A name is the cruise *)
(* tag, the eight digits after 'D' and the six digits after 'T'.           *)
(***************************************************************************)

\* The start times the names are drawn from.
Years == {2013, 2015}
Months == {7, 12}
Days == {1, 19}
Hours == {0, 19}
Minutes == {34, 59}
Seconds == {12, 43}

StartTimes ==
  [year : Years, month : Months, day : Days, hour : Hours,
   minute : Minutes, second : Seconds]

\* The decimal digits of n, padded to the given width.
RECURSIVE Digits(_, _)
Digits(n, width) ==
  IF width = 0 THEN <<>>
  ELSE Append(Digits(n \div 10, width - 1), n % 10)

\* The number a sequence of decimal digits writes.
RECURSIVE Number(_)
Number(ds) ==
  IF ds = <<>> THEN 0
  ELSE 10 * Number(SubSeq(ds, 1, Len(ds) - 1)) + ds[Len(ds)]

\* <tag>-'D'YYYYMMDD'-T'hhmmss for a start time.
FileNameOf(tag, t) ==
  [tag |-> tag,
   D |-> Digits(t.year, 4) \o Digits(t.month, 2) \o Digits(t.day, 2),
   T |-> Digits(t.hour, 2) \o Digits(t.minute, 2) \o Digits(t.second, 2)]

\* The example of the documentation, SaKe2015-D20150719-T193412.
ExampleName ==
  [tag |-> "SaKe2015", D |-> <<2, 0, 1, 5, 0, 7, 1, 9>>,
   T |-> <<1, 9, 3, 4, 1, 2>>]

\* A reading that takes the date as DDMMYYYY.
StartOfDayFirst(n) ==
  [year |-> Number(SubSeq(n.D, 5, 8)), month |-> Number(SubSeq(n.D, 3, 4)),
   day |-> Number(SubSeq(n.D, 1, 2)), hour |-> Number(SubSeq(n.T, 1, 2)),
   minute |-> Number(SubSeq(n.T, 3, 4)), second |-> Number(SubSeq(n.T, 5, 6))]

\* The start time (UTC) of a name: 'D'YYYYMMDD'-T'hhmmss.
StartOf(n) ==
  [year |-> Number(SubSeq(n.D, 1, 4)), month |-> Number(SubSeq(n.D, 5, 6)),
   day |-> Number(SubSeq(n.D, 7, 8)), hour |-> Number(SubSeq(n.T, 1, 2)),
   minute |-> Number(SubSeq(n.T, 3, 4)), second |-> Number(SubSeq(n.T, 5, 6))]

InitName ==
  /\ name \in {FileNameOf("SaKe2015", t) : t \in StartTimes}
  /\ start = Unset
  /\ nstatus = "named"
  /\ IdleRun /\ IdleInstall /\ IdleXr /\ IdleGeo /\ IdleCh1 /\ IdleRead

\* The start time is read off the name.
ReadStart ==
  /\ nstatus = "named"
  /\ start' = StartOf(name)
  /\ nstatus' = "read"
  /\ UNCHANGED name
  /\ UNCHANGED <<varsRun, varsInstall, varsXr, varsGeo, varsCh1, varsRead>>

NextName == ReadStart

SpecName == InitName /\ [][NextName]_vars

InitFailures == InitRun \/ InitInstall \/ InitCh1 \/ InitRead

NextFailures == NextRun \/ NextInstall \/ NextCh1 \/ NextRead

SpecFailures == InitFailures /\ [][NextFailures]_vars

\* What has happened when a loop or a cell has failed: the failure is the
\* last thing the loop did.
C18_FailureIsLast ==
  \* install-check loops: an import that raised anything but ImportError, or
  \* a pip that exited non-zero, is the last package visited and the cell
  \* has raised; a handled ImportError is followed by exactly one pip run.
  /\ \A i \in 1..Len(outcomes) :
       /\ (outcomes[i].result = "Exception" \/ outcomes[i].pip = "failed") =>
            i = Len(outcomes) /\ istatus = "raised"
       /\ outcomes[i].result = "ImportError" <=> outcomes[i].pip # "not run"
       /\ outcomes[i].package = PACKAGES(inb)[i]
  /\ istatus = "raised" =>
       /\ Len(outcomes) = idx
       /\ outcomes[idx].result = "Exception" \/ outcomes[idx].pip = "failed"
  /\ Len(pipLog) = Cardinality({i \in 1..Len(outcomes) :
                                  outcomes[i].result = "ImportError"})
  \* download loop: a failed download is the last call made, the cell has
  \* raised, and each call is for the file at its place in the list.
  /\ \A i \in 1..Len(downloads) :
       /\ ~downloads[i].ok =>
            i = Len(downloads) /\ cstatus = "raised" /\ cell = "c5"
       /\ downloads[i].Filename = file_names[i]
  /\ (cstatus = "raised" /\ cell = "c5") =>
       Len(downloads) = fileIdx /\ ~downloads[fileIdx].ok
  \* Dataset on bytes it cannot open: called once, nothing opened or read.
  /\ (rstatus = "raised" /\ rcell = "dataset") =>
       /\ Len(dsCalls) = 1
       /\ DS = Unset /\ S1_full_latitude = Unset
  \* a statement that raised is the one the run stopped at.
  /\ status = "raised" => pc <= Len(Notebook(nb))

\* A cell that has raised does nothing more: the next thing that can happen
\* is the user running the notebook again.
C18_NothingAfterFailure ==
  /\ istatus = "raised" => UNCHANGED varsInstall
  /\ status = "raised" => UNCHANGED varsRun
  /\ rstatus = "raised" => UNCHANGED varsRead
  /\ cstatus = "raised" => UNCHANGED varsCh1 \/ run' = run + 1

\* C18: ImportError inside the install-check loops is the only exception
\* handled; any other failure (an import raising something else, a non-zero
\* pip exit, a failed download, a Dataset that cannot open its bytes, a
\* raising statement) leaves its cell at once, is not retried, and the
\* remaining iterations of the loop are not executed.
C18_OnlyImportErrorHandled ==
  []C18_FailureIsLast /\ [][C18_NothingAfterFailure]_vars

\* A pip install of the second package of Chapter 1 has failed after a
\* handled ImportError for the first.
C18_Witness ==
  /\ inb = "Echofish_Chapter_1"
  /\ istatus = "raised"
  /\ Len(outcomes) = 2
  /\ outcomes[1].result = "ImportError" /\ outcomes[1].pip = "ok"
  /\ outcomes[2].pip = "failed"
  /\ pipLog = <<"boto3", "botocore">>

Split(text, sep) ==
  LET at == SelectSeq([i \in 1..Len(text) |-> i], LAMBDA i : text[i] = sep)
      ends == <<0>> \o at \o <<Len(text) + 1>>
  IN [k \in 1..(Len(at) + 1) |-> SubSeq(text, ends[k] + 1, ends[k + 1] - 1)]

\* The digit a character writes, 10 for a character that is no digit.
DigitOf(c) ==
  CASE c = "0" -> 0 [] c = "1" -> 1 [] c = "2" -> 2 [] c = "3" -> 3
    [] c = "4" -> 4 [] c = "5" -> 5 [] c = "6" -> 6 [] c = "7" -> 7
    [] c = "8" -> 8 [] c = "9" -> 9 [] OTHER -> 10

AllDigits(text) == \A i \in 1..Len(text) : DigitOf(text[i]) < 10

\* The number a text of digits writes.
ValueOf(text) == Number([i \in 1..Len(text) |-> DigitOf(text[i])])

\* <TC PRIMED AWS URL>, split at "/".
TCPrimedAwsUrl ==
  << <<"h", "t", "t", "p", "s", ":">>, <<>>,
     <<"n", "o", "a", "a", "-", "n", "e", "s", "d", "i", "s", "-", "t",
       "c", "p", "r", "i", "m", "e", "d", "-", "p", "d", "s", ".", "s",
       "3", ".", "a", "m", "a", "z", "o", "n", "a", "w", "s", ".", "c",
       "o", "m">> >>

\* The basins of the documentation.
Basins ==
  { <<"A", "L">>, <<"S", "L">>, <<"E", "P">>, <<"C", "P">>, <<"W", "P">>,
    <<"I", "O">>, <<"S", "H">> }

\* The five components of a folder URL of the documented form
\* <TC PRIMED AWS URL>/<version>/<type>/<season>/<basin>/<annual number>/
\* (version v01r01, type final or preliminary, four-digit season, a basin
\* of the list, annual number 01 to 49).
HasDocumentedForm(folder) ==
  LET parts == Split(folder, "/")
  IN /\ Len(parts) = 9
     /\ SubSeq(parts, 1, 3) = TCPrimedAwsUrl
     /\ parts[4] = <<"v", "0", "1", "r", "0", "1">>
     /\ parts[5] \in { <<"f", "i", "n", "a", "l">>,
                        <<"p", "r", "e", "l", "i", "m", "i", "n", "a", "r", "y">> }
     /\ Len(parts[6]) = 4 /\ AllDigits(parts[6])
     /\ parts[7] \in Basins
     /\ Len(parts[8]) = 2 /\ AllDigits(parts[8])
     /\ ValueOf(parts[8]) >= 1 /\ ValueOf(parts[8]) <= 49
     /\ parts[9] = <<>>

\* The components embedded in a file name
\* TCPRIMED_<version>-<type>_<basin><number><season>_...
Embedded(file) ==
  LET fields == Split(file, "_")
      release == Split(fields[2], "-")
  IN [version |-> release[1], type |-> release[2],
      basin |-> SubSeq(fields[3], 1, 2), number |-> SubSeq(fields[3], 3, 4),
      season |-> SubSeq(fields[3], 5, 8)]

\* C21: NODD_URL has the documented form (version v01r01, type final or
\* preliminary, a four-digit season, a basin of the list, an annual number
\* from 01 to 49), each of its components is the one embedded in FILE_NAME
\* (v01r01-final, AL, 06, 2018), and the URL requested is that folder
\* followed by the file name.
C21_UrlHasDocumentedForm ==
  (rstatus # "idle" /\ rcell # "get") =>
    LET parts == Split(url_response.url, "/")
        folder == SubSeq(url_response.url, 1,
                         Len(url_response.url) - Len(FILE_NAME))
        e == Embedded(parts[Len(parts)])
    IN /\ folder = NODD_URL
       /\ HasDocumentedForm(folder)
       /\ parts[Len(parts)] = FILE_NAME
       /\ parts[4] = e.version /\ e.version = <<"v", "0", "1", "r", "0", "1">>
       /\ parts[5] = e.type /\ e.type = <<"f", "i", "n", "a", "l">>
       /\ parts[6] = e.season /\ ValueOf(e.season) = 2018
       /\ parts[7] = e.basin /\ e.basin = <<"A", "L">>
       /\ parts[8] = e.number /\ ValueOf(e.number) = 6

\* The file has been requested and the server has answered with it.
C21_Witness ==
  /\ rcell = "dataset" /\ rstatus = "running"
  /\ url_response.status_code = 200
  /\ url_response.url = NODD_URL \o FILE_NAME

====
